---- MODULE Spec2Model ----
(***************************************************************************)
(* Model of the roster86 scheduling engines                                *)
(*   src/shiftwizard/backend/restaurant_scheduling_engine.py               *)
(*   src/shiftwizard/backend/workforce_scheduling_engine.py                *)
(*                                                                         *)
(* One scheduling run: the catalogs (workers, shifts, requirements,        *)
(* policies) are the input, then create_variables, add_hard_constraints,   *)
(* add_soft_constraints_to_objective, define_objective and solve_model     *)
(* are called in that order (main() and the runners).  The CP-SAT solver   *)
(* is a black box: it returns a status and, for OPTIMAL / FEASIBLE, an     *)
(* assignment of the boolean variables that satisfies every constraint     *)
(* the builder added.                                                      *)
(*                                                                         *)
(* Units: wall-clock times are minutes since midnight ("HH:MM"), hourly    *)
(* rates and budget caps are cents, max weekly hours and the minimum rest  *)
(* are minutes.  int(v * 100) of the code is the integer division written  *)
(* next to each use.                                                       *)
(***************************************************************************)
EXTENDS Integers, Sequences, FiniteSets, TLC

VARIABLES
    data,                \* RestaurantSchedulingData / SchedulingInputData
    time_limit_seconds,  \* argument of solve_model
    pc,                  \* position of the run in the call sequence
    x,                   \* decision variables: set of <<worker_id, shift_id>>
    aux_vars,            \* auxiliary IntVars: name -> <<lo, hi>>
    overlap_cache,       \* _overlap_cache: set of sorted shift-id pairs
    constraints,         \* constraints added to the CpModel, in order
    objective,           \* [defined, terms] of model.Minimize
    solver_params,       \* solver.parameters
    solver_calls,        \* number of solver.Solve invocations
    status,              \* final solver status
    solution,            \* self.solution
    success,             \* return value of solve_model
    solver_log,          \* outcome of each solver.Solve invocation, in order
    diagnosis,           \* what _diagnose_infeasibility reported
    input_data,          \* the JSON document handed to the runner
    result,              \* self.result of the runner
    last_analysis,       \* DiagnosticEngine.last_analysis
    recommendation_history,  \* RecommendationEngine.recommendation_history
    conflict_data,       \* arguments of the generate_summary calls to come
    tips_call,           \* arguments of the generate_tips calls
    last_tips,           \* outcome of the latest generate_tips call
    summary_call,        \* the latest generate_summary call: count and argument
    balance_log          \* calls of _calculate_shift_balance_score: input, score

\* state of the runner around the scheduler model
runner_vars == <<input_data, result, balance_log>>

\* state of the diagnostic and recommendation engines
diag_vars == <<last_analysis, recommendation_history, conflict_data, tips_call,
              last_tips, summary_call>>

vars == <<data, time_limit_seconds, pc, x, aux_vars, overlap_cache,
          constraints, objective, solver_params, solver_calls, status,
          solution, success, solver_log, diagnosis, runner_vars, diag_vars>>

----------------------------------------------------------------------------
(* Program constants *)

COST_SCALE == 100

MinutesPerHour == 60

MinutesPerDay == 1440

DaysInWeek == 7

ParallelWorkers == 4

RetryWorkers == 1

RetryTimeCap == 300

MinTimeLimit == 1

MaxTimeLimit == 600

days_order ==
    <<"Monday", "Tuesday", "Wednesday", "Thursday", "Friday", "Saturday", "Sunday">>

\* required_skill = None
NoSkill == "None"

\* Python's string order on the shift ids used in the model
ShiftIdOrder == <<"s1", "s2", "s3", "s4">>

----------------------------------------------------------------------------
(* Generic helpers *)

Range(s) == {s[i] : i \in DOMAIN s}

RECURSIVE SumF(_, _)
SumF(f, S) ==
    IF S = {} THEN 0
    ELSE LET e == CHOOSE e \in S : TRUE IN f[e] + SumF(f, S \ {e})

RECURSIVE Flatten(_)
Flatten(ss) == IF ss = <<>> THEN <<>> ELSE Head(ss) \o Flatten(Tail(ss))

\* [(s[i], s[j]) for i, a in enumerate(s) for b in s[i+1:]]
PairSeq(s) ==
    Flatten([i \in 1..Len(s) |-> [k \in 1..(Len(s) - i) |-> <<s[i], s[i + k]>>]])

Min(a, b) == IF a <= b THEN a ELSE b

Max(a, b) == IF a >= b THEN a ELSE b

----------------------------------------------------------------------------
(* Catalog accessors *)

workers == data.workers

shifts == data.shifts

ShiftIds == [i \in 1..Len(shifts) |-> shifts[i].shift_id]

get_shift(shift_id) ==
    LET i == CHOOSE i \in 1..Len(shifts) :
                 /\ shifts[i].shift_id = shift_id
                 /\ \A j \in 1..(i - 1) : shifts[j].shift_id # shift_id
    IN shifts[i]

get_day_index(day) ==
    (CHOOSE i \in 1..Len(days_order) : days_order[i] = day) - 1

worker_has_skill(worker_id, skill) ==
    \/ skill = NoSkill
    \/ skill \in data.worker_skills[worker_id]

----------------------------------------------------------------------------
(* TimeModel *)

\* end += timedelta(days=1) when end < start
NormEnd(start_time, end_time) ==
    IF end_time < start_time THEN end_time + MinutesPerDay ELSE end_time

\* duration_hours, in minutes
duration_minutes(shift) == NormEnd(shift.start_time, shift.end_time) - shift.start_time

\* int(shift.duration_hours * COST_SCALE)
hours_scaled(shift) == (duration_minutes(shift) * COST_SCALE) \div MinutesPerHour

\* variant: the 40.0 default applied to every worker
max_hours_scaled_default(worker_id) == (2400 * COST_SCALE) \div MinutesPerHour

\* int(max_hours * COST_SCALE), max_hours kept in minutes
max_hours_scaled(worker_id) ==
    (data.max_hours_per_week[worker_id] * COST_SCALE) \div MinutesPerHour

\* int(hourly_rate * shift.duration_hours * COST_SCALE), hourly_rate in cents
shift_cost(worker_id, shift) ==
    (data.labor_cost[worker_id] * duration_minutes(shift)) \div MinutesPerHour

\* variant: any overlap of window and shift counts, not only containment
overlaps_with_shift_partial(slot, shift) ==
    IF slot.day # shift.day THEN FALSE
    ELSE /\ slot.start_time < NormEnd(shift.start_time, shift.end_time)
         /\ shift.start_time < NormEnd(slot.start_time, slot.end_time)

overlaps_with_shift(slot, shift) ==
    IF slot.day # shift.day THEN FALSE
    ELSE /\ slot.start_time <= shift.start_time
         /\ NormEnd(slot.start_time, slot.end_time)
                >= NormEnd(shift.start_time, shift.end_time)

worker_can_work_shift(worker_id, shift) ==
    IF worker_id \notin DOMAIN data.worker_availability THEN FALSE
    ELSE \E i \in 1..Len(data.worker_availability[worker_id]) :
             overlaps_with_shift(data.worker_availability[worker_id][i], shift)

\* variant: end times compared as read, without the overnight extension
shifts_overlap_no_wrap(shift1, shift2) ==
    IF shift1.day # shift2.day THEN FALSE
    ELSE /\ shift1.start_time < shift2.end_time
         /\ shift2.start_time < shift1.end_time

shifts_overlap(shift1, shift2) ==
    IF shift1.day # shift2.day THEN FALSE
    ELSE /\ shift1.start_time < NormEnd(shift2.start_time, shift2.end_time)
         /\ shift2.start_time < NormEnd(shift1.start_time, shift1.end_time)

insufficient_rest(shift1, shift2, min_rest) ==
    LET day1_idx == get_day_index(shift1.day)
        day2_idx == get_day_index(shift2.day)
        end1     == shift1.end_time
        start2   == IF day2_idx > day1_idx
                    THEN shift2.start_time + MinutesPerDay
                    ELSE shift2.start_time
    IN IF day2_idx - day1_idx > 1 \/ day1_idx - day2_idx > 1 THEN FALSE
       ELSE IF end1 < start2 THEN (start2 - end1) < min_rest
       ELSE FALSE

----------------------------------------------------------------------------
(* Constraint vocabulary of the solver boundary *)

NoAux == <<"none", "">>

NoTerms == [v \in {} |-> 0]

\* model.Add(sum(terms) op rhs)
Lin(kind, terms, op, rhs) ==
    [kind |-> kind, form |-> "lin", terms |-> terms, aux |-> NoAux,
     op |-> op, rhs |-> rhs]

\* model.Add(sum(terms) == aux)
Link(kind, terms, aux) ==
    [kind |-> kind, form |-> "link", terms |-> terms, aux |-> aux,
     op |-> "eq", rhs |-> 0]

\* model.Add(aux <= rhs)
Bound(kind, aux, rhs) ==
    [kind |-> kind, form |-> "bound", terms |-> NoTerms, aux |-> aux,
     op |-> "le", rhs |-> rhs]

\* x[worker_id][shift_id_1] + x[worker_id][shift_id_2] <= 1
Mutex(kind, worker_id, shift_id_1, shift_id_2) ==
    Lin(kind, [v \in {<<worker_id, shift_id_1>>, <<worker_id, shift_id_2>>} |-> 1],
        "le", 1)

\* list(self.x[worker_id].keys()): shift ids in catalog order
assigned_shifts(worker_id) ==
    SelectSeq(ShiftIds, LAMBDA sid : <<worker_id, sid>> \in x)

\* tuple(sorted([shift_id_1, shift_id_2]))
IdRank(sid) == CHOOSE i \in 1..Len(ShiftIdOrder) : ShiftIdOrder[i] = sid

SortedPair(a, b) == IF IdRank(a) <= IdRank(b) THEN <<a, b>> ELSE <<b, a>>

----------------------------------------------------------------------------
(* create_variables *)

budget_set == data.budget_constraint.set

\* truthiness of budget_constraint.max_daily_cost: neither None nor 0
daily_cap_active ==
    /\ data.budget_constraint.has_daily
    /\ data.budget_constraint.max_daily_cost # 0

create_budget_variables ==
    IF data.engine # "restaurant" \/ ~budget_set THEN {}
    ELSE (IF daily_cap_active
          THEN {<<<<"daily_cost", days_order[d]>>,
                  <<0, data.budget_constraint.max_daily_cost>>>> :
                    d \in 1..Len(days_order)}
          ELSE {})
         \cup {<<<<"total_cost", "">>, <<0, data.budget_constraint.max_total_cost>>>>}

create_fairness_variables ==
    IF data.engine # "restaurant" THEN {}
    ELSE {<<<<"shift_count", workers[i]>>, <<0, Len(shifts)>>>> : i \in 1..Len(workers)}

AuxFromPairs(ps) ==
    [n \in {p[1] : p \in ps} |-> (CHOOSE p \in ps : p[1] = n)[2]]

create_variables_x ==
    {<<workers[i], shifts[j].shift_id>> :
        <<i, j>> \in {ij \in (1..Len(workers)) \X (1..Len(shifts)) :
                        worker_can_work_shift(workers[ij[1]], shifts[ij[2]])}}

create_variables ==
    /\ pc = "new"
    /\ x' = create_variables_x
    /\ aux_vars' = AuxFromPairs(create_budget_variables \cup create_fairness_variables)
    /\ pc' = "variables"
    /\ UNCHANGED <<data, time_limit_seconds, overlap_cache, constraints, objective,
                   solver_params, solver_calls, status, solution, success,
                   solver_log, diagnosis, runner_vars, diag_vars>>

----------------------------------------------------------------------------
(* add_hard_constraints *)

VarsOf(worker_id) == {<<worker_id, sid>> : sid \in Range(assigned_shifts(worker_id))}

requirements_of(shift) == data.shift_requirements[shift.shift_id]

\* workers with a variable for the shift that hold the role and the required skill
eligible_workers(shift, req) ==
    SelectSeq(workers, LAMBDA w :
        /\ <<w, shift.shift_id>> \in x
        /\ worker_has_skill(w, req.role)
        /\ worker_has_skill(w, req.required_skill))

\* variant: at least the required count instead of exactly
coverage_constraint_at_least(shift, req) ==
    Lin("coverage",
        [v \in {<<w, shift.shift_id>> : w \in Range(eligible_workers(shift, req))} |-> 1],
        "ge", req.count)

\* sum(x[w][shift_id] for w in eligible_workers) == req.count
coverage_constraint(shift, req) ==
    Lin("coverage",
        [v \in {<<w, shift.shift_id>> : w \in Range(eligible_workers(shift, req))} |-> 1],
        "eq", req.count)

\* if eligible_workers: model.Add(...); nothing is added otherwise
coverage_of_requirement(shift, req) ==
    IF eligible_workers(shift, req) # <<>>
    THEN <<coverage_constraint(shift, req)>>
    ELSE <<>>

add_coverage_constraints ==
    Flatten([i \in 1..Len(shifts) |->
        Flatten([j \in 1..Len(requirements_of(shifts[i])) |->
            coverage_of_requirement(shifts[i], requirements_of(shifts[i])[j])])])

\* variant: the cache keeps each pair in catalog order instead of sorting it
compute_overlap_cache_unsorted ==
    {<<p[1].shift_id, p[2].shift_id>> :
        p \in {q \in Range(PairSeq(shifts)) : shifts_overlap(q[1], q[2])}}

\* restaurant engine: all overlapping pairs of the catalog, keyed by sorted ids
compute_overlap_cache ==
    {SortedPair(p[1].shift_id, p[2].shift_id) :
        p \in {q \in Range(PairSeq(shifts)) : shifts_overlap(q[1], q[2])}}

overlap_pair_test(cache, shift_id_1, shift_id_2) ==
    IF data.engine = "restaurant"
    THEN SortedPair(shift_id_1, shift_id_2) \in cache
    ELSE shifts_overlap(get_shift(shift_id_1), get_shift(shift_id_2))

overlap_of_worker(cache, worker_id) ==
    LET pairs == SelectSeq(PairSeq(assigned_shifts(worker_id)),
                           LAMBDA p : overlap_pair_test(cache, p[1], p[2]))
    IN [k \in 1..Len(pairs) |-> Mutex("overlap", worker_id, pairs[k][1], pairs[k][2])]

add_overlap_constraints(cache) ==
    Flatten([i \in 1..Len(workers) |-> overlap_of_worker(cache, workers[i])])

hours_constraint(worker_id) ==
    Lin("hours",
        [v \in VarsOf(worker_id) |-> hours_scaled(get_shift(v[2]))],
        "le", max_hours_scaled(worker_id))

add_hours_constraints ==
    Flatten([i \in 1..Len(workers) |->
        IF VarsOf(workers[i]) # {} THEN <<hours_constraint(workers[i])>> ELSE <<>>])

cost_terms(V) == [v \in V |-> shift_cost(v[1], get_shift(v[2]))]

daily_budget_of(day) ==
    LET V == {v \in x : get_shift(v[2]).day = day}
    IN IF V # {} /\ <<"daily_cost", day>> \in DOMAIN aux_vars
       THEN <<Link("daily_budget", cost_terms(V), <<"daily_cost", day>>),
              Bound("daily_budget", <<"daily_cost", day>>,
                    data.budget_constraint.max_daily_cost)>>
       ELSE <<>>

add_daily_budget_constraints ==
    Flatten([d \in 1..Len(days_order) |-> daily_budget_of(days_order[d])])

add_budget_constraints ==
    (IF x # {} /\ <<"total_cost", "">> \in DOMAIN aux_vars
     THEN <<Link("budget", cost_terms(x), <<"total_cost", "">>),
            Bound("budget", <<"total_cost", "">>, data.budget_constraint.max_total_cost)>>
     ELSE <<>>)
    \o (IF daily_cap_active THEN add_daily_budget_constraints ELSE <<>>)

\* variant: a window of max_consecutive days instead of max_consecutive + 1
window_days_short(start_idx, max_consecutive) ==
    {days_order[d] : d \in (start_idx + 1)..Min(start_idx + max_consecutive,
                                                Len(days_order))}

\* days_order[start_idx : start_idx + max_consecutive + 1], start_idx 0-based
window_days(start_idx, max_consecutive) ==
    {days_order[d] : d \in (start_idx + 1)..Min(start_idx + max_consecutive + 1,
                                                Len(days_order))}

consecutive_of_window(worker_id, start_idx, max_consecutive) ==
    LET V == {v \in VarsOf(worker_id) :
                get_shift(v[2]).day \in window_days(start_idx, max_consecutive)}
    IN IF V # {}
       THEN <<Lin("consecutive", [v \in V |-> 1], "le", max_consecutive)>>
       ELSE <<>>

add_consecutive_days_constraints ==
    LET max_consecutive == data.fairness_constraints.max_consecutive_days
    IN IF max_consecutive >= DaysInWeek THEN <<>>
       ELSE Flatten([i \in 1..Len(workers) |->
                Flatten([k \in 1..(Len(days_order) - max_consecutive) |->
                    consecutive_of_window(workers[i], k - 1, max_consecutive)])])

rest_of_worker(worker_id) ==
    LET pairs == SelectSeq(PairSeq(assigned_shifts(worker_id)),
                           LAMBDA p : insufficient_rest(get_shift(p[1]), get_shift(p[2]),
                                          data.fairness_constraints.min_rest_hours))
    IN [k \in 1..Len(pairs) |-> Mutex("rest", worker_id, pairs[k][1], pairs[k][2])]

add_rest_period_constraints ==
    Flatten([i \in 1..Len(workers) |-> rest_of_worker(workers[i])])

\* RestaurantSchedulerModel.add_hard_constraints
restaurant_hard_constraints(cache) ==
    add_coverage_constraints
    \o add_overlap_constraints(cache)
    \o add_hours_constraints
    \o (IF budget_set THEN add_budget_constraints ELSE <<>>)
    \o add_consecutive_days_constraints
    \o add_rest_period_constraints

\* SchedulerModel.add_hard_constraints
workforce_hard_constraints ==
    add_coverage_constraints
    \o add_overlap_constraints({})
    \o add_hours_constraints

add_hard_constraints ==
    /\ pc = "variables"
    /\ overlap_cache' = IF data.engine = "restaurant" THEN compute_overlap_cache ELSE {}
    /\ constraints' = constraints \o
          (IF data.engine = "restaurant"
           THEN restaurant_hard_constraints(compute_overlap_cache)
           ELSE workforce_hard_constraints)
    /\ pc' = "hard"
    /\ UNCHANGED <<data, time_limit_seconds, x, aux_vars, objective,
                   solver_params, solver_calls, status, solution, success,
                   solver_log, diagnosis, runner_vars, diag_vars>>

----------------------------------------------------------------------------
(* add_soft_constraints_to_objective, define_objective *)

\* model.Add(worker_shift_counts[worker_id] == sum(shift_vars))
shift_count_links ==
    Flatten([i \in 1..Len(workers) |->
        IF VarsOf(workers[i]) # {}
        THEN <<Link("shift_count", [v \in VarsOf(workers[i]) |-> 1],
                    <<"shift_count", workers[i]>>)>>
        ELSE <<>>])

add_soft_constraints_to_objective ==
    /\ pc = "hard"
    /\ data.engine = "restaurant"
    /\ constraints' = constraints \o shift_count_links
    /\ pc' = "soft"
    /\ UNCHANGED <<data, time_limit_seconds, x, aux_vars, overlap_cache, objective,
                   solver_params, solver_calls, status, solution, success,
                   solver_log, diagnosis, runner_vars, diag_vars>>

\* model.Minimize(sum(objective_terms)) only when there are terms
define_objective ==
    /\ \/ pc = "soft"
       \/ pc = "hard" /\ data.engine = "workforce"
    /\ objective' = [defined |-> x # {}, terms |-> cost_terms(x)]
    /\ pc' = "objective"
    /\ UNCHANGED <<data, time_limit_seconds, x, aux_vars, overlap_cache, constraints,
                   solver_params, solver_calls, status, solution, success,
                   solver_log, diagnosis, runner_vars, diag_vars>>

----------------------------------------------------------------------------
(* The external solver: solver.Solve(self.model) *)

TermSum(c, A) == SumF(c.terms, DOMAIN c.terms \cap A)

LinHolds(c, A) ==
    CASE c.op = "eq" -> TermSum(c, A) = c.rhs
      [] c.op = "le" -> TermSum(c, A) <= c.rhs
      [] c.op = "ge" -> TermSum(c, A) >= c.rhs

\* value v of the auxiliary variable n agrees with every constraint that mentions n
AuxValueOk(n, A, v) ==
    /\ aux_vars[n][1] <= v
    /\ v <= aux_vars[n][2]
    /\ \A i \in 1..Len(constraints) :
          constraints[i].aux = n =>
             CASE constraints[i].form = "link"  -> TermSum(constraints[i], A) = v
               [] constraints[i].form = "bound" -> v <= constraints[i].rhs

\* some value of the domain of n works; a link constraint forces the value
AuxFeasible(n, A) ==
    LET links == {i \in 1..Len(constraints) :
                    constraints[i].form = "link" /\ constraints[i].aux = n}
    IN IF links = {}
       THEN \E v \in aux_vars[n][1]..aux_vars[n][2] : AuxValueOk(n, A, v)
       ELSE AuxValueOk(n, A, TermSum(constraints[CHOOSE i \in links : TRUE], A))

Satisfies(A) ==
    /\ \A i \in 1..Len(constraints) :
          constraints[i].form = "lin" => LinHolds(constraints[i], A)
    /\ \A n \in DOMAIN aux_vars : AuxFeasible(n, A)

ObjValue(A) == IF objective.defined THEN SumF(objective.terms, A) ELSE 0

RaiseResult == [status |-> "ERROR", assignment |-> {}]

\* what one call of Solve can return: a proven optimum, any feasible assignment
\* found before the time limit, a proof of infeasibility, or no answer
SolverResults ==
    LET Sat     == {A \in SUBSET x : Satisfies(A)}
        Optimal == {A \in Sat : \A B \in Sat : ObjValue(A) <= ObjValue(B)}
    IN {[status |-> "OPTIMAL", assignment |-> A] : A \in Optimal}
       \cup (IF objective.defined
             THEN {[status |-> "FEASIBLE", assignment |-> A] : A \in Sat}
             ELSE {})
       \cup (IF Sat = {} THEN {[status |-> "INFEASIBLE", assignment |-> {}]} ELSE {})
       \cup {[status |-> "UNKNOWN", assignment |-> {}]}

----------------------------------------------------------------------------
(* _extract_solution *)

NoSolution ==
    [present |-> FALSE, assignments |-> <<>>, worker_hours |-> <<>>,
     shift_assignments |-> <<>>, total_cost |-> 0]

\* cost = labor_cost[worker_id] * shift.duration_hours, in cent-minutes
\* (1/60 cent), so that the product is exact
assignment_record(worker_id, shift_id) ==
    [worker_id |-> worker_id, shift_id |-> shift_id,
     cost |-> data.labor_cost[worker_id] * duration_minutes(get_shift(shift_id))]

assignments_of_worker(A, worker_id) ==
    LET sids == SelectSeq(assigned_shifts(worker_id), LAMBDA sid : <<worker_id, sid>> \in A)
    IN [k \in 1..Len(sids) |-> assignment_record(worker_id, sids[k])]

\* variant: the hours and the per-shift lists start from the stored roster
extract_solution_accumulating(A) ==
    [present |-> TRUE,
     assignments |-> Flatten([i \in 1..Len(workers) |-> assignments_of_worker(A, workers[i])]),
     worker_hours |->
        [w \in Range(workers) |->
            (IF solution.present THEN solution.worker_hours[w] ELSE 0)
            + SumF([v \in A |-> duration_minutes(get_shift(v[2]))], {v \in A : v[1] = w})],
     shift_assignments |->
        [sid \in Range(ShiftIds) |->
            (IF solution.present THEN solution.shift_assignments[sid] ELSE <<>>)
            \o SelectSeq(workers, LAMBDA w : <<w, sid>> \in A)],
     total_cost |-> ObjValue(A)]

\* the accumulators are local and start empty on every call
extract_solution(A) ==
    [present |-> TRUE,
     assignments |-> Flatten([i \in 1..Len(workers) |-> assignments_of_worker(A, workers[i])]),
     worker_hours |->
        [w \in Range(workers) |->
            SumF([v \in A |-> duration_minutes(get_shift(v[2]))], {v \in A : v[1] = w})],
     shift_assignments |->
        [sid \in Range(ShiftIds) |-> SelectSeq(workers, LAMBDA w : <<w, sid>> \in A)],
     total_cost |-> ObjValue(A)]

----------------------------------------------------------------------------
(* solve_model *)

\* max(1, min(600, time_limit_seconds)) in the restaurant engine only
first_time_limit ==
    IF data.engine = "restaurant"
    THEN Max(MinTimeLimit, Min(MaxTimeLimit, time_limit_seconds))
    ELSE time_limit_seconds

first_params ==
    [max_time_in_seconds |-> first_time_limit,
     num_search_workers |->
        IF data.engine = "restaurant" THEN ParallelWorkers
        ELSE solver_params.num_search_workers]

\* min(time_limit_seconds * 2, 300) and a single search worker
retry_params ==
    [max_time_in_seconds |-> Min(first_time_limit * 2, RetryTimeCap),
     num_search_workers |-> RetryWorkers]

\* nothing was diagnosed
NoDiagnosis ==
    [ran |-> FALSE, not_enough_hours |-> FALSE, budget_checked |-> FALSE,
     budget_too_tight |-> FALSE]

\* sum(req.count for req in shift_requirements[shift_id])
required_count(shift) ==
    SumF([j \in 1..Len(requirements_of(shift)) |-> requirements_of(shift)[j].count],
         1..Len(requirements_of(shift)))

\* sum over the shifts of duration_hours * required count, in minutes
total_required_hours ==
    SumF([i \in 1..Len(shifts) |-> duration_minutes(shifts[i]) * required_count(shifts[i])],
         1..Len(shifts))

\* sum over the workers of max_hours_per_week, in minutes
total_available_hours ==
    SumF([i \in 1..Len(workers) |-> data.max_hours_per_week[workers[i]]],
         1..Len(workers))

\* min(labor_cost.values())
min_labor_cost ==
    CHOOSE c \in {data.labor_cost[w] : w \in Range(workers)} :
        \A w \in Range(workers) : c <= data.labor_cost[w]

\* sum over the shifts of the lowest hourly rate * duration_hours * required
\* count, in cent-minutes
min_possible_cost == min_labor_cost * total_required_hours

\* the checks and the lines printed by _diagnose_infeasibility
diagnose_infeasibility ==
    [ran |-> TRUE,
     not_enough_hours |-> total_required_hours > total_available_hours,
     budget_checked |-> budget_set,
     budget_too_tight |->
        /\ budget_set
        /\ min_possible_cost > data.budget_constraint.max_total_cost * MinutesPerHour]

\* the branches on the status after the solver returned
finish(r, calls, params) ==
    /\ status' = r.status
    /\ solver_calls' = calls
    /\ solver_params' = params
    /\ IF r.status \in {"OPTIMAL", "FEASIBLE"}
       THEN /\ solution' = extract_solution(r.assignment)
            /\ success' = TRUE
       ELSE /\ solution' = solution
            /\ success' = FALSE
    /\ diagnosis' = IF r.status = "INFEASIBLE" /\ data.engine = "restaurant"
                    THEN diagnose_infeasibility
                    ELSE diagnosis

\* one solver.Solve invocation: the parameters in force and what came back
solver_call(r, params) ==
    [status |-> r.status, params |-> params, assignment |-> r.assignment]

\* variant: every outcome without a roster is tried again
retry_after_any_failure(first) ==
    /\ data.engine = "restaurant"
    /\ first.status \notin {"OPTIMAL", "FEASIBLE"}

\* the except clause around the first Solve: only an exception raised by the
\* solver leads to the second invocation, and only the restaurant engine has it
retry_after(first) ==
    /\ data.engine = "restaurant"
    /\ first = RaiseResult

solve_model ==
    /\ pc = "objective"
    /\ pc' = "done"
    /\ \E first \in SolverResults \cup {RaiseResult} :
          IF ~retry_after(first)
          THEN /\ finish(first, 1, first_params)
               /\ solver_log' = <<solver_call(first, first_params)>>
          ELSE \E second \in SolverResults \cup {RaiseResult} :
                  /\ finish(second, 2, retry_params)
                  /\ solver_log' = <<solver_call(first, first_params),
                                     solver_call(second, retry_params)>>
    /\ UNCHANGED <<data, time_limit_seconds, x, aux_vars, overlap_cache,
                   constraints, objective, runner_vars, diag_vars>>

Next ==
    \/ create_variables
    \/ add_hard_constraints
    \/ add_soft_constraints_to_objective
    \/ define_objective
    \/ solve_model

\* _extract_solution called once more on the values the solver holds
reextract_solution ==
    /\ pc = "done"
    /\ success
    /\ solution' = extract_solution(solver_log[Len(solver_log)].assignment)
    /\ pc' = "extracted"
    /\ UNCHANGED <<data, time_limit_seconds, x, aux_vars, overlap_cache,
                   constraints, objective, solver_params, solver_calls, status,
                   success, solver_log, diagnosis, runner_vars, diag_vars>>

ExtractNext ==
    \/ Next
    \/ reextract_solution

----------------------------------------------------------------------------
(* Inputs *)

DefaultTimeLimit == 60

DefaultMaxConsecutive == 6

\* 10.0 hours
DefaultMinRest == 600

\* 40.0 hours
DefaultMaxHours == 2400

NoBudget == [set |-> FALSE, max_total_cost |-> 0, has_daily |-> FALSE, max_daily_cost |-> 0]

DefaultFairness ==
    [max_consecutive_days |-> DefaultMaxConsecutive, min_rest_hours |-> DefaultMinRest]

Slot(day, start_time, end_time) ==
    [day |-> day, start_time |-> start_time, end_time |-> end_time]

Shift(shift_id, day, start_time, end_time) ==
    [shift_id |-> shift_id, day |-> day, start_time |-> start_time, end_time |-> end_time]

Requirement(role, count, required_skill) ==
    [role |-> role, count |-> count, required_skill |-> required_skill]

Engines == {"restaurant", "workforce"}

\* the scheduler is used without a runner
NoInput == [runner |-> "none"]

\* self.result of a freshly constructed runner
NoResult ==
    [success |-> FALSE, solution |-> [present |-> FALSE, assignments |-> <<>>],
     coverage_gaps |-> <<>>, errors |-> <<>>]

\* last_analysis = None
NoAnalysis == [present |-> FALSE]

\* no diagnosis is asked for
NoCall == [penalty_data |-> <<>>, move_data |-> <<>>, drop |-> "none"]

\* generate_tips was not called
NoTips == [called |-> FALSE, raised |-> FALSE, recommendations |-> <<>>]

\* generate_summary was not called
NoSummaryCall == [calls |-> 0, raised |-> FALSE, conflict_data |-> <<>>]

\* a freshly constructed scheduler model, runner and diagnostic engines
FreshState ==
    /\ x = {}
    /\ aux_vars = <<>>
    /\ overlap_cache = {}
    /\ constraints = <<>>
    /\ objective = [defined |-> FALSE, terms |-> NoTerms]
    /\ solver_params = [max_time_in_seconds |-> 0, num_search_workers |-> 0]
    /\ solver_calls = 0
    /\ status = "NONE"
    /\ solution = NoSolution
    /\ success = FALSE
    /\ solver_log = <<>>
    /\ diagnosis = NoDiagnosis
    /\ result = NoResult
    /\ last_analysis = NoAnalysis
    /\ recommendation_history = <<>>
    /\ last_tips = NoTips
    /\ summary_call = NoSummaryCall
    /\ balance_log = <<>>

\* state of a freshly constructed scheduler model over the catalogs d
InitWith(d, limit) ==
    /\ data = d
    /\ time_limit_seconds = limit
    /\ pc = "new"
    /\ input_data = NoInput
    /\ conflict_data = <<>>
    /\ tips_call = NoCall
    /\ FreshState

----------------------------------------------------------------------------
(* The runners: load_input_data, run_scheduling                              *)
(* A JSON object is a function from its keys; a key that is absent is not   *)
(* in its DOMAIN.  A JSON number that int() accepts is [int |-> TRUE,       *)
(* value |-> n], any other value is [int |-> FALSE, value |-> 0].           *)

\* obj.get(key, default)
Get(obj, key, default) == IF key \in DOMAIN obj THEN obj[key] ELSE default

\* obj[key] raises KeyError for one of the keys
KeyError(obj, keys) == \E k \in keys : k \notin DOMAIN obj

\* 15.0 dollars an hour
DefaultHourlyRate == 1500

\* ShiftRequirement(role=req["role"], count=int(req["count"]), ...) raises
requirement_raises(req) ==
    \/ KeyError(req, {"role", "count"})
    \/ ~req.count.int

\* reading a shift entry raises
shift_raises(shift) ==
    \/ \E j \in 1..Len(Get(shift, "requirements", <<>>)) :
          requirement_raises(shift.requirements[j])
    \/ KeyError(shift, {"id", "day", "start_time", "end_time"})

\* reading a worker entry raises
worker_raises(worker) == KeyError(worker, {"id"})

\* some statement of the loading loops raises
load_raises(doc) ==
    \/ \E i \in 1..Len(Get(doc, "workers", <<>>)) : worker_raises(doc.workers[i])
    \/ \E i \in 1..Len(Get(doc, "shifts", <<>>)) : shift_raises(doc.shifts[i])

\* the workers that add_availability is called for: a non-empty slot list
workers_with_availability(doc) ==
    LET ws == Get(doc, "workers", <<>>)
    IN {ws[i].id : i \in {k \in 1..Len(ws) : Get(ws[k], "availability", <<>>) # <<>>}}

worker_of(doc, worker_id) ==
    doc.workers[CHOOSE i \in 1..Len(doc.workers) : doc.workers[i].id = worker_id]

shift_of(doc, shift_id) ==
    doc.shifts[CHOOSE i \in 1..Len(doc.shifts) : doc.shifts[i].id = shift_id]

load_requirements(shift) ==
    [j \in 1..Len(Get(shift, "requirements", <<>>)) |->
        Requirement(shift.requirements[j].role, shift.requirements[j].count.value,
                    Get(shift.requirements[j], "required_skill", NoSkill))]

\* budget_config of the restaurant runner: max_total_cost only
load_budget(runner, doc) ==
    IF runner = "restaurant" /\ "budget" \in DOMAIN doc
    THEN [set |-> TRUE, max_total_cost |-> doc.budget.max_total_cost,
          has_daily |-> FALSE, max_daily_cost |-> 0]
    ELSE NoBudget

\* the catalogs after the loading loops, defaults filled in
loaded_data(runner, doc) ==
    LET ws   == Get(doc, "workers", <<>>)
        ss   == Get(doc, "shifts", <<>>)
        ids  == {ws[i].id : i \in 1..Len(ws)}
        sids == {ss[i].id : i \in 1..Len(ss)}
    IN [engine |-> runner,
        workers |-> [i \in 1..Len(ws) |-> ws[i].id],
        worker_skills |-> [w \in ids |-> Get(worker_of(doc, w), "skills", {})],
        worker_availability |->
            [w \in workers_with_availability(doc) |-> worker_of(doc, w).availability],
        labor_cost |->
            [w \in ids |-> Get(worker_of(doc, w), "hourly_rate", DefaultHourlyRate)],
        max_hours_per_week |->
            [w \in ids |-> Get(worker_of(doc, w), "max_hours", DefaultMaxHours)],
        shifts |-> [i \in 1..Len(ss) |->
                       Shift(ss[i].id, ss[i].day, ss[i].start_time, ss[i].end_time)],
        shift_requirements |-> [sid \in sids |-> load_requirements(shift_of(doc, sid))],
        budget_constraint |-> load_budget(runner, doc),
        fairness_constraints |-> DefaultFairness]

\* SchedulingInputData.validate: the error messages
validate(d) ==
    (IF d.workers = <<>> THEN <<"No workers defined">> ELSE <<>>)
    \o (IF d.shifts = <<>> THEN <<"No shifts defined">> ELSE <<>>)
    \o [k \in 1..Len(SelectSeq(d.workers,
                        LAMBDA w : w \notin DOMAIN d.worker_availability)) |->
           "Worker has no availability defined"]

\* the errors load_input_data appends; none when it returns True
load_errors(runner, doc) ==
    IF runner = "restaurant"
    THEN IF Get(doc, "workers", <<>>) = <<>>
         THEN <<"No workers provided in input data">>
         ELSE IF Get(doc, "shifts", <<>>) = <<>>
         THEN <<"No shifts provided in input data">>
         ELSE IF load_raises(doc) THEN <<"Error loading input data">>
         ELSE <<>>
    ELSE IF load_raises(doc) THEN <<"Error loading input data">>
         ELSE validate(loaded_data(runner, doc))

\* main: run_scheduling is called only when load_input_data returned True
load_input_data ==
    /\ pc = "input"
    /\ LET errors == load_errors(input_data.runner, input_data.doc)
       IN IF errors = <<>>
          THEN /\ data' = loaded_data(input_data.runner, input_data.doc)
               /\ pc' = "new"
               /\ result' = result
          ELSE /\ data' = data
               /\ pc' = "rejected"
               /\ result' = [result EXCEPT !.errors = @ \o errors]
    /\ UNCHANGED <<time_limit_seconds, x, aux_vars, overlap_cache, constraints,
                   objective, solver_params, solver_calls, status, solution, success,
                   solver_log, diagnosis, input_data, balance_log, diag_vars>>

\* workers the runner counts as eligible: available and holding the
\* required skill
gap_eligible_workers(shift, req) ==
    SelectSeq(workers, LAMBDA w :
        /\ worker_can_work_shift(w, shift)
        /\ worker_has_skill(w, req.required_skill))

\* _get_gap_reason
get_gap_reason(eligible_count, needed_count) ==
    IF eligible_count = 0 THEN [tag |-> "none_available", eligible |-> 0, need |-> 0]
    ELSE IF eligible_count < needed_count
    THEN [tag |-> "only", eligible |-> eligible_count, need |-> needed_count]
    ELSE [tag |-> "conflict", eligible |-> 0, need |-> 0]

coverage_gap(shift, req, missing, eligible_count, needed_count) ==
    [shift_id |-> shift.shift_id, day |-> shift.day,
     time_range |-> <<shift.start_time, shift.end_time>>,
     missing_staff |-> missing, required_role |-> req.role,
     required_skill |-> req.required_skill, eligible_workers |-> eligible_count,
     reason |-> get_gap_reason(eligible_count, needed_count)]

\* workers of the roster on the shift that count for the requirement
assigned_count(shift, req) ==
    Len(SelectSeq(solution.shift_assignments[shift.shift_id], LAMBDA w :
            req.required_skill = NoSkill \/ worker_has_skill(w, req.required_skill)))

gaps_of_requirement(shift, req) ==
    LET eligible_count == Len(gap_eligible_workers(shift, req))
    IN IF solution.present
       THEN IF assigned_count(shift, req) < req.count
            THEN <<coverage_gap(shift, req, req.count - assigned_count(shift, req),
                                eligible_count, req.count - assigned_count(shift, req))>>
            ELSE <<>>
       ELSE IF eligible_count < req.count
            THEN <<coverage_gap(shift, req, req.count - eligible_count,
                                eligible_count, req.count)>>
            ELSE <<>>

identify_coverage_gaps ==
    Flatten([i \in 1..Len(shifts) |->
        Flatten([j \in 1..Len(requirements_of(shifts[i])) |->
            gaps_of_requirement(shifts[i], requirements_of(shifts[i])[j])])])

\* get_statistics raises: the workforce engine takes min() over the workers
\* with hours > 0, the restaurant engine divides by max_total_cost
get_statistics_raises ==
    IF data.engine = "workforce"
    THEN \A w \in Range(workers) : solution.worker_hours[w] = 0
    ELSE budget_set /\ data.budget_constraint.max_total_cost = 0

formatted_assignments ==
    [k \in 1..Len(solution.assignments) |->
        [worker_id |-> solution.assignments[k].worker_id,
         shift_id |-> solution.assignments[k].shift_id]]

\* what run_scheduling does once solve_model returned or raised
run_scheduling ==
    /\ pc = "done"
    /\ input_data.runner # "none"
    /\ pc' = "reported"
    /\ result' =
          IF data.engine = "workforce" /\ status = "ERROR"
          THEN [result EXCEPT !.errors = @ \o <<"Scheduling error">>]
          ELSE IF success
          THEN IF get_statistics_raises
               THEN [result EXCEPT !.errors = @ \o <<"Scheduling error">>]
               ELSE [result EXCEPT
                        !.solution = [present |-> TRUE,
                                      assignments |-> formatted_assignments],
                        !.coverage_gaps = identify_coverage_gaps,
                        !.success = TRUE]
          ELSE [result EXCEPT !.coverage_gaps = identify_coverage_gaps]
    /\ UNCHANGED <<data, time_limit_seconds, x, aux_vars, overlap_cache, constraints,
                   objective, solver_params, solver_calls, status, solution, success,
                   solver_log, diagnosis, input_data, balance_log, diag_vars>>

RunnerNext ==
    \/ load_input_data
    \/ Next
    \/ run_scheduling

----------------------------------------------------------------------------
(* _calculate_shift_balance_score                                           *)
(* Hours are kept in minutes and the score in tenths, the precision the     *)
(* code rounds it to.  With n active workers and                            *)
(* S = n * sum(h^2) - sum(h)^2 (minutes squared) the standard deviation in  *)
(* hours is sqrt(S) / (60 n), so std_dev * 10 counted in tenths is          *)
(* sqrt(100 S) / (6 n); it rounds to k exactly when                         *)
(* (2k - 1) * 3n <= sqrt(100 S) < (2k + 1) * 3n.  The inputs of the         *)
(* balance runs put no value on a rounding tie.                             *)

PerfectScore == 1000

\* hours_list: the workers with h > 0
hours_list(worker_hours) == {w \in DOMAIN worker_hours : worker_hours[w] > 0}

\* n^2 times the variance of the active workers' minutes
scaled_variance(worker_hours) ==
    LET active == hours_list(worker_hours)
        n == Cardinality(active)
        total == SumF(worker_hours, active)
        squares == SumF([w \in active |-> worker_hours[w] * worker_hours[w]], active)
    IN n * squares - total * total

\* whether std_dev * 10, in tenths, rounds to k or more
penalty_reaches(worker_hours, k) ==
    LET n == Cardinality(hours_list(worker_hours))
        edge == (2 * k - 1) * 3 * n
    IN k = 0 \/ edge * edge <= 100 * scaled_variance(worker_hours)

\* round(max(0.0, min(100.0, 100 - std_dev * 10)), 1), in tenths
clamped_score(worker_hours) ==
    IF penalty_reaches(worker_hours, PerfectScore) THEN 0
    ELSE PerfectScore -
         (CHOOSE k \in 0..PerfectScore :
             /\ penalty_reaches(worker_hours, k)
             /\ ~penalty_reaches(worker_hours, k + 1))

balance_score(worker_hours) ==
    IF Cardinality(hours_list(worker_hours)) <= 1 THEN PerfectScore
    ELSE clamped_score(worker_hours)

\* The hours maps a roster of three workers can hand to the score: whole
\* hours between none and a forty-hour week.
MinuteChoices == {0, 240, 480, 1200, 2400}

BalanceWorkers == {"w1", "w2", "w3"}

BalanceHours ==
    {h \in [BalanceWorkers -> MinuteChoices] : h["w3"] \in {0, 480}}

MaxScores == 2

calculate_shift_balance_score ==
    /\ pc = "balance"
    /\ Len(balance_log) < MaxScores
    /\ \E worker_hours \in BalanceHours :
          balance_log' = Append(balance_log,
                                [worker_hours |-> worker_hours,
                                 score |-> balance_score(worker_hours)])
    /\ UNCHANGED <<data, time_limit_seconds, pc, x, aux_vars, overlap_cache,
                   constraints, objective, solver_params, solver_calls, status,
                   solution, success, solver_log, diagnosis, input_data, result,
                   diag_vars>>

BalanceNext == calculate_shift_balance_score

----------------------------------------------------------------------------
(* Coverage runs: one lunch shift, two workers with every combination of     *)
(* skill tags, one or two role requirements                                  *)

MaxCount == 2

MaxReqs == 2

Tags == {"Server", "Host"}

\* availability 06:00-23:00 and the lunch shift 10:00-16:00 of the sample data
DayWindow == <<360, 1380>>

LunchRange == <<600, 960>>

DaySlot(day) == Slot(day, DayWindow[1], DayWindow[2])

RequirementChoices ==
    {Requirement(r, c, k) : r \in Tags, c \in 1..MaxCount, k \in {NoSkill, "Host"}}

\* a shift lists each role at most once
RequirementLists ==
    {rs \in UNION {[1..n -> RequirementChoices] : n \in 1..MaxReqs} :
        \A i, j \in DOMAIN rs : i # j => rs[i].role # rs[j].role}

CoverageData ==
    {[engine |-> e,
      workers |-> <<"w1", "w2">>,
      worker_skills |-> [w \in {"w1", "w2"} |-> IF w = "w1" THEN k1 ELSE k2],
      worker_availability |->
         IF a2 THEN [w \in {"w1", "w2"} |-> <<DaySlot("Monday")>>]
         ELSE [w \in {"w1"} |-> <<DaySlot("Monday")>>],
      labor_cost |-> [w \in {"w1", "w2"} |-> IF w = "w1" THEN 1500 ELSE c2],
      max_hours_per_week |-> [w \in {"w1", "w2"} |-> DefaultMaxHours],
      shifts |-> <<Shift("s1", "Monday", LunchRange[1], LunchRange[2])>>,
      shift_requirements |-> [sid \in {"s1"} |-> reqs],
      budget_constraint |-> NoBudget,
      fairness_constraints |-> DefaultFairness] :
        e \in Engines, k1 \in SUBSET Tags, k2 \in SUBSET Tags, a2 \in BOOLEAN,
        c2 \in {0, 1200}, reqs \in RequirementLists}

InitCoverage == \E d \in CoverageData : InitWith(d, DefaultTimeLimit)

SpecCoverage == InitCoverage /\ [][Next]_vars

----------------------------------------------------------------------------
(* Eligibility runs: one Monday shift, worker w1 with up to MaxWindows       *)
(* availability windows, worker w2 with one window or no availability entry  *)

MaxWindows == 2

\* 06:00, 14:00, 22:00
TimePoints == {360, 840, 1320}

WindowChoices ==
    {s \in {Slot(d, a, b) : d \in {"Monday", "Tuesday"}, a \in TimePoints, b \in TimePoints} :
        s.start_time # s.end_time}

WindowLists == UNION {[1..n -> WindowChoices] : n \in 0..MaxWindows}

EligibilityShifts ==
    {s \in {Shift("s1", "Monday", a, b) : a \in TimePoints, b \in TimePoints} :
        s.start_time # s.end_time}

EligibilityData ==
    {[engine |-> e,
      workers |-> <<"w1", "w2">>,
      worker_skills |-> [w \in {"w1", "w2"} |-> {"Server"}],
      worker_availability |->
         IF a2 THEN [w \in {"w1", "w2"} |->
                        IF w = "w1" THEN ws ELSE <<DaySlot("Monday")>>]
         ELSE [w \in {"w1"} |-> ws],
      labor_cost |-> [w \in {"w1", "w2"} |-> IF w = "w1" THEN 1500 ELSE 1200],
      max_hours_per_week |-> [w \in {"w1", "w2"} |-> DefaultMaxHours],
      shifts |-> <<sh>>,
      shift_requirements |-> [sid \in {"s1"} |-> <<Requirement("Server", 1, NoSkill)>>],
      budget_constraint |-> NoBudget,
      fairness_constraints |-> DefaultFairness] :
        e \in Engines, ws \in WindowLists, a2 \in BOOLEAN, sh \in EligibilityShifts}

InitEligibility == \E d \in EligibilityData : InitWith(d, DefaultTimeLimit)

SpecEligibility == InitEligibility /\ [][Next]_vars

----------------------------------------------------------------------------
(* Fairness runs: two interchangeable servers, MaxShifts shifts drawn from   *)
(* three days and five time ranges in every catalog order, each needing one  *)
(* server, under several rest and consecutive-day policies                   *)

MaxShifts == 2

\* 08:00-12:00, 12:00-16:00, 10:00-14:00, 18:00-23:00, 22:00-06:00
TimeRanges == {<<480, 720>>, <<720, 960>>, <<600, 840>>, <<1080, 1380>>, <<1320, 360>>}

FairnessDays == {"Monday", "Tuesday", "Wednesday"}

\* 07:00-06:30 of the next day
WideWindow == <<420, 390>>

WideSlot(day) == Slot(day, WideWindow[1], WideWindow[2])

ShiftChoices == FairnessDays \X TimeRanges

ShiftLists ==
    {[i \in 1..MaxShifts |->
         Shift(ShiftIdOrder[i], c[i][1], c[i][2][1], c[i][2][2])] :
       c \in [1..MaxShifts -> ShiftChoices]}

\* 0h, 10h, 12h
RestChoices == {0, 600, 720}

ConsecutiveChoices == {1, 2, 7}

FairnessPolicies ==
    {[max_consecutive_days |-> m, min_rest_hours |-> r] :
        m \in ConsecutiveChoices, r \in RestChoices}

FairnessData ==
    {[engine |-> ef[1],
      workers |-> <<"w1", "w2">>,
      worker_skills |-> [w \in {"w1", "w2"} |-> {"Server"}],
      worker_availability |->
         [w \in {"w1", "w2"} |->
             <<WideSlot("Monday"), WideSlot("Tuesday"), WideSlot("Wednesday")>>],
      labor_cost |-> [w \in {"w1", "w2"} |-> IF w = "w1" THEN 1000 ELSE 1200],
      max_hours_per_week |-> [w \in {"w1", "w2"} |-> DefaultMaxHours],
      shifts |-> sl,
      shift_requirements |->
         [sid \in Range([i \in 1..Len(sl) |-> sl[i].shift_id]) |->
             <<Requirement("Server", 1, NoSkill)>>],
      budget_constraint |-> NoBudget,
      fairness_constraints |-> ef[2]] :
        ef \in ({"restaurant"} \X FairnessPolicies) \cup {<<"workforce", DefaultFairness>>},
        sl \in ShiftLists}

InitFairness == \E d \in FairnessData : InitWith(d, DefaultTimeLimit)

SpecFairness == InitFairness /\ [][Next]_vars

----------------------------------------------------------------------------
(* Cost runs: 7.5-hour shifts (09:00-16:30) on Monday and Tuesday, two       *)
(* servers at $14.25 and $10.00 or $14.25, weekly-hours limits of 7.5h or    *)
(* 40h, total and daily budget caps around the cost of one and two shifts    *)

CostRange == <<540, 990>>

CostShiftLists ==
    {<<Shift("s1", "Monday", CostRange[1], CostRange[2])>>,
     <<Shift("s1", "Monday", CostRange[1], CostRange[2]),
       Shift("s2", "Tuesday", CostRange[1], CostRange[2])>>}

\* $106.87, $160.00, $213.74, $213.75, $427.50
CapChoices == {10687, 16000, 21374, 21375, 42750}

BudgetChoices ==
    {NoBudget}
    \cup {[set |-> TRUE, max_total_cost |-> t, has_daily |-> FALSE, max_daily_cost |-> 0] :
            t \in CapChoices}
    \cup {[set |-> TRUE, max_total_cost |-> t, has_daily |-> TRUE, max_daily_cost |-> d] :
            t \in CapChoices, d \in CapChoices}

\* 7.5 hours and 40 hours
MaxHoursChoices == {450, 2400}

CostData ==
    {[engine |-> eb[1],
      workers |-> <<"w1", "w2">>,
      worker_skills |-> [w \in {"w1", "w2"} |-> {"Server"}],
      worker_availability |->
         [w \in {"w1", "w2"} |->
             <<DaySlot("Monday"), DaySlot("Tuesday")>>],
      labor_cost |-> [w \in {"w1", "w2"} |-> IF w = "w1" THEN 1425 ELSE c2],
      max_hours_per_week |-> [w \in {"w1", "w2"} |-> IF w = "w1" THEN h1 ELSE DefaultMaxHours],
      shifts |-> sl,
      shift_requirements |->
         [sid \in Range([i \in 1..Len(sl) |-> sl[i].shift_id]) |->
             <<Requirement("Server", n, NoSkill)>>],
      budget_constraint |-> eb[2],
      fairness_constraints |-> DefaultFairness] :
        eb \in ({"restaurant"} \X BudgetChoices) \cup {<<"workforce", NoBudget>>},
        c2 \in {1000, 1425}, h1 \in MaxHoursChoices,
        sl \in CostShiftLists, n \in 1..MaxCount}

InitCost == \E d \in CostData : InitWith(d, DefaultTimeLimit)

SpecCost == InitCost /\ [][Next]_vars

\* the same catalogs, the roster extracted a second time
SpecExtract == InitCost /\ [][ExtractNext]_vars

----------------------------------------------------------------------------
(* Duration runs: one Monday shift whose start and end are any two of four   *)
(* wall-clock times, equal ones included, and two servers available around   *)
(* the clock                                                                 *)

\* 00:00, 06:00, 14:00, 22:00
DurationPoints == {0, 360, 840, 1320}

\* windows of 24 hours less a minute starting at each of the four times
ClockSlots(day) ==
    <<Slot(day, 0, 1439), Slot(day, 360, 359), Slot(day, 840, 839),
      Slot(day, 1320, 1319)>>

DurationData ==
    {[engine |-> e,
      workers |-> <<"w1", "w2">>,
      worker_skills |-> [w \in {"w1", "w2"} |-> {"Server"}],
      worker_availability |-> [w \in {"w1", "w2"} |-> ClockSlots("Monday")],
      labor_cost |-> [w \in {"w1", "w2"} |-> IF w = "w1" THEN 1500 ELSE 1200],
      max_hours_per_week |-> [w \in {"w1", "w2"} |-> DefaultMaxHours],
      shifts |-> <<Shift("s1", "Monday", a, b)>>,
      shift_requirements |-> [sid \in {"s1"} |-> <<Requirement("Server", n, NoSkill)>>],
      budget_constraint |-> NoBudget,
      fairness_constraints |-> DefaultFairness] :
        e \in Engines, a \in DurationPoints, b \in DurationPoints, n \in 1..MaxCount}

InitDuration == \E d \in DurationData : InitWith(d, DefaultTimeLimit)

SpecDuration == InitDuration /\ [][Next]_vars

----------------------------------------------------------------------------
(* Solve runs: one lunch shift needing one or two servers, one or two        *)
(* available servers, and requested time limits below, inside and above the  *)
(* operating range                                                           *)

TimeLimitChoices == {-5, 0, 1, 30, 60, 150, 151, 300, 600, 601, 3600}

SolveData ==
    {[engine |-> e,
      workers |-> <<"w1", "w2">>,
      worker_skills |-> [w \in {"w1", "w2"} |-> {"Server"}],
      worker_availability |->
         IF a2 THEN [w \in {"w1", "w2"} |-> <<DaySlot("Monday")>>]
         ELSE [w \in {"w1"} |-> <<DaySlot("Monday")>>],
      labor_cost |-> [w \in {"w1", "w2"} |-> IF w = "w1" THEN 1500 ELSE 1200],
      max_hours_per_week |-> [w \in {"w1", "w2"} |-> DefaultMaxHours],
      shifts |-> <<Shift("s1", "Monday", LunchRange[1], LunchRange[2])>>,
      shift_requirements |-> [sid \in {"s1"} |-> <<Requirement("Server", n, NoSkill)>>],
      budget_constraint |-> NoBudget,
      fairness_constraints |-> DefaultFairness] :
        e \in Engines, a2 \in BOOLEAN, n \in 1..MaxCount}

InitSolve == \E d \in SolveData : \E limit \in TimeLimitChoices : InitWith(d, limit)

SpecSolve == InitSolve /\ [][Next]_vars

----------------------------------------------------------------------------
(* Runner runs: JSON documents with two workers holding one or both tags,    *)
(* one lunch shift with one or two role requirements, with or without a      *)
(* budget, and the same documents with one part missing or malformed         *)

JInt(n) == [int |-> TRUE, value |-> n]

\* a count such as "two"
JNotInt == [int |-> FALSE, value |-> 0]

JsonWorker(id, skills, rate, slots) ==
    [id |-> id, skills |-> skills, hourly_rate |-> rate,
     max_hours |-> DefaultMaxHours, availability |-> slots]

JsonRequirements(reqs) ==
    [j \in 1..Len(reqs) |->
        IF reqs[j].required_skill = NoSkill
        THEN [role |-> reqs[j].role, count |-> JInt(reqs[j].count)]
        ELSE [role |-> reqs[j].role, count |-> JInt(reqs[j].count),
              required_skill |-> reqs[j].required_skill]]

\* $0 and $200
BudgetCaps == {0, 20000}

Without(obj, key) == [k \in DOMAIN obj \ {key} |-> obj[k]]

BaseDocs ==
    {[workers |-> <<JsonWorker("w1", k1, 1500, <<DaySlot("Monday")>>),
                   JsonWorker("w2", k2, 1200,
                              IF a2 THEN <<DaySlot("Monday")>> ELSE <<>>)>>,
      shifts |-> <<[id |-> "s1", day |-> "Monday", start_time |-> LunchRange[1],
                    end_time |-> LunchRange[2],
                    requirements |-> JsonRequirements(reqs)]>>] :
        k1 \in SUBSET Tags \ {{}}, k2 \in SUBSET Tags \ {{}}, a2 \in BOOLEAN,
        reqs \in RequirementLists}

WithBudget(doc, cap) == [k \in DOMAIN doc \cup {"budget"} |->
                            IF k = "budget" THEN [max_total_cost |-> cap] ELSE doc[k]]

Defects ==
    {"none", "workers_missing", "workers_empty", "shifts_missing", "shifts_empty",
     "worker_id_missing", "worker_skills_missing", "shift_day_missing",
     "requirements_missing", "requirements_empty", "role_missing", "count_missing",
     "count_not_integer"}

ChangeFirst(seq, f(_)) == [i \in 1..Len(seq) |-> IF i = 1 THEN f(seq[i]) ELSE seq[i]]

ChangeFirstRequirement(doc, f(_)) ==
    [doc EXCEPT !.shifts =
        ChangeFirst(@, LAMBDA sh : [sh EXCEPT !.requirements = ChangeFirst(@, f)])]

ApplyDefect(doc, defect) ==
    CASE defect = "none" -> doc
      [] defect = "workers_missing" -> Without(doc, "workers")
      [] defect = "workers_empty" -> [doc EXCEPT !.workers = <<>>]
      [] defect = "shifts_missing" -> Without(doc, "shifts")
      [] defect = "shifts_empty" -> [doc EXCEPT !.shifts = <<>>]
      [] defect = "worker_id_missing" ->
            [doc EXCEPT !.workers = ChangeFirst(@, LAMBDA w : Without(w, "id"))]
      [] defect = "worker_skills_missing" ->
            [doc EXCEPT !.workers = ChangeFirst(@, LAMBDA w : Without(w, "skills"))]
      [] defect = "shift_day_missing" ->
            [doc EXCEPT !.shifts = ChangeFirst(@, LAMBDA sh : Without(sh, "day"))]
      [] defect = "requirements_missing" ->
            [doc EXCEPT !.shifts = ChangeFirst(@, LAMBDA sh : Without(sh, "requirements"))]
      [] defect = "requirements_empty" ->
            [doc EXCEPT !.shifts =
                ChangeFirst(@, LAMBDA sh : [sh EXCEPT !.requirements = <<>>])]
      [] defect = "role_missing" ->
            ChangeFirstRequirement(doc, LAMBDA r : Without(r, "role"))
      [] defect = "count_missing" ->
            ChangeFirstRequirement(doc, LAMBDA r : Without(r, "count"))
      [] defect = "count_not_integer" ->
            ChangeFirstRequirement(doc, LAMBDA r : [r EXCEPT !.count = JNotInt])

RunnerDocs ==
    {ApplyDefect(doc, defect) : doc \in BaseDocs, defect \in Defects}

RunnerInputs ==
    {[runner |-> e, doc |-> doc] : e \in Engines, doc \in RunnerDocs}
    \cup {[runner |-> "restaurant", doc |-> WithBudget(doc, cap)] :
            doc \in RunnerDocs, cap \in BudgetCaps}

\* self.data = None
NoData == [engine |-> "none"]

InitRunner ==
    \E input \in RunnerInputs :
        /\ input_data = input
        /\ data = NoData
        /\ time_limit_seconds = DefaultTimeLimit
        /\ pc = "input"
        /\ conflict_data = <<>>
        /\ tips_call = NoCall
        /\ FreshState

SpecRunner == InitRunner /\ [][RunnerNext]_vars

----------------------------------------------------------------------------
(* scheduling_diagnostics.py: DiagnosticEngine and RecommendationEngine      *)
(* A recommendation is the record of the values its text is formatted from. *)
(* Scores are integers: penalty scores in tenths and impact scores in       *)
(* hundredths, the precision the texts print them with.                     *)

ConstraintConflict(shift_id, role, required, missing_skills) ==
    [shift_id |-> shift_id, role |-> role, required_count |-> required,
     missing_skills |-> missing_skills]

WorkerStatus(worker_id, is_available, available_skills, conflict_reason) ==
    [worker_id |-> worker_id, is_available |-> is_available,
     available_skills |-> available_skills, conflict_reason |-> conflict_reason]

PenaltyReport(soft_constraint_id, penalty_score, current_setting) ==
    [soft_constraint_id |-> soft_constraint_id, penalty_score |-> penalty_score,
     current_setting |-> current_setting]

CandidateMove(worker_id, source_shift_id, target_shift_id, impact_score, reason) ==
    [worker_id |-> worker_id, source_shift_id |-> source_shift_id,
     target_shift_id |-> target_shift_id, impact_score |-> impact_score,
     reason |-> reason]

has_skill(ws, skill) == skill \in ws.available_skills

skill_gap(ws, required_skills) ==
    SelectSeq(required_skills, LAMBDA skill : skill \notin ws.available_skills)

\* sum(1 for skill in required_skills if ws.has_skill(skill))
matching_count(ws, required_skills) ==
    Len(SelectSeq(required_skills, LAMBDA skill : has_skill(ws, skill)))

\* _find_closest_match returned None
NoMatch == [present |-> FALSE]

\* conflict_reason of an available worker
NoReason == "None"

\* variant: the last worker of the list with the highest matching count
find_closest_match_last(worker_statuses, required_skills) ==
    IF worker_statuses = <<>> \/ required_skills = <<>>
    THEN NoMatch
    ELSE LET mc(i) == matching_count(worker_statuses[i], required_skills)
             best == CHOOSE i \in 1..Len(worker_statuses) :
                        /\ \A j \in 1..Len(worker_statuses) : mc(j) <= mc(i)
                        /\ \A j \in (i + 1)..Len(worker_statuses) : mc(j) < mc(i)
             ws   == worker_statuses[best]
         IN [present |-> TRUE,
             worker_id |-> ws.worker_id,
             matching_skills_count |-> mc(best),
             total_required_skills |-> Len(required_skills),
             missing_skills |-> skill_gap(ws, required_skills),
             is_available |-> ws.is_available,
             conflict_reason |-> IF ~ws.is_available THEN ws.conflict_reason
                                 ELSE NoReason]

\* the first worker of the list with the highest matching count
find_closest_match(worker_statuses, required_skills) ==
    IF worker_statuses = <<>> \/ required_skills = <<>>
    THEN NoMatch
    ELSE LET mc(i) == matching_count(worker_statuses[i], required_skills)
             best == CHOOSE i \in 1..Len(worker_statuses) :
                        /\ \A j \in 1..Len(worker_statuses) : mc(j) <= mc(i)
                        /\ \A j \in 1..(i - 1) : mc(j) < mc(i)
             ws   == worker_statuses[best]
         IN [present |-> TRUE,
             worker_id |-> ws.worker_id,
             matching_skills_count |-> mc(best),
             total_required_skills |-> Len(required_skills),
             missing_skills |-> skill_gap(ws, required_skills),
             is_available |-> ws.is_available,
             conflict_reason |-> IF ~ws.is_available THEN ws.conflict_reason
                                 ELSE NoReason]

\* skill_gaps[skill]: the number of workers that lack the skill
workers_lacking(worker_statuses, skill) ==
    Len(SelectSeq(worker_statuses, LAMBDA ws : ~has_skill(ws, skill)))

\* variant: the last skill with the highest count
critical_missing_skill_last(conflict, worker_statuses) ==
    IF conflict.missing_skills = <<>>
    THEN NoSkill
    ELSE LET lacking(i) == workers_lacking(worker_statuses, conflict.missing_skills[i])
         IN conflict.missing_skills[
                CHOOSE i \in 1..Len(conflict.missing_skills) :
                    /\ \A j \in 1..Len(conflict.missing_skills) : lacking(j) <= lacking(i)
                    /\ \A j \in (i + 1)..Len(conflict.missing_skills) :
                          lacking(j) < lacking(i)]

\* max(skill_gaps.items(), key=count)[0]: the first skill with the highest count
critical_missing_skill(conflict, worker_statuses) ==
    IF conflict.missing_skills = <<>>
    THEN NoSkill
    ELSE LET lacking(i) == workers_lacking(worker_statuses, conflict.missing_skills[i])
         IN conflict.missing_skills[
                CHOOSE i \in 1..Len(conflict.missing_skills) :
                    /\ \A j \in 1..Len(conflict.missing_skills) : lacking(j) <= lacking(i)
                    /\ \A j \in 1..(i - 1) : lacking(j) < lacking(i)]

workers_by_reason(worker_statuses) ==
    LET unavailable == SelectSeq(worker_statuses, LAMBDA ws : ~ws.is_available)
    IN [reason \in {unavailable[i].conflict_reason : i \in 1..Len(unavailable)} |->
           LET with == SelectSeq(unavailable, LAMBDA ws : ws.conflict_reason = reason)
           IN [i \in 1..Len(with) |-> with[i].worker_id]]

\* generate_summary raises ValueError
summary_raises(cd) == KeyError(cd, {"conflict", "worker_statuses"})

\* the summary generate_summary builds, the timestamp left out
summary_of(cd) ==
    LET conflict          == cd.conflict
        worker_statuses   == cd.worker_statuses
        available_workers == Len(SelectSeq(worker_statuses, LAMBDA ws : ws.is_available))
    IN [shift_id |-> conflict.shift_id,
        role |-> conflict.role,
        staffing_gap |->
            [needed |-> conflict.required_count,
             available |-> available_workers,
             shortfall |-> IF conflict.required_count - available_workers > 0
                           THEN conflict.required_count - available_workers ELSE 0],
        critical_missing_skill |-> critical_missing_skill(conflict, worker_statuses),
        all_missing_skills |-> conflict.missing_skills,
        available_workers_count |-> available_workers,
        unavailable_workers_count |-> Len(worker_statuses) - available_workers,
        total_workers_in_pool |-> Len(worker_statuses),
        workers_by_reason |-> workers_by_reason(worker_statuses),
        closest_match_worker |->
            find_closest_match(worker_statuses, conflict.missing_skills)]

\* one call of DiagnosticEngine.generate_summary with the next conflict
generate_summary ==
    /\ pc = "diagnostics"
    /\ conflict_data # <<>>
    /\ conflict_data' = Tail(conflict_data)
    /\ summary_call' = [calls |-> summary_call.calls + 1,
                        raised |-> summary_raises(Head(conflict_data)),
                        conflict_data |-> Head(conflict_data)]
    /\ last_analysis' =
          IF summary_raises(Head(conflict_data))
          THEN last_analysis
          ELSE [present |-> TRUE, summary |-> summary_of(Head(conflict_data))]
    /\ UNCHANGED <<data, time_limit_seconds, pc, x, aux_vars, overlap_cache,
                   constraints, objective, solver_params, solver_calls, status,
                   solution, success, solver_log, diagnosis, runner_vars,
                   recommendation_history, tips_call, last_tips>>

required_keys == <<"shift_id", "role", "critical_missing_skill", "closest_match_worker">>

\* generate_tips raises ValueError
tips_raises(summary) == KeyError(summary, Range(required_keys))

strategic_tip(summary) ==
    LET critical_skill == summary.critical_missing_skill
        closest_worker == summary.closest_match_worker
    IN IF closest_worker.present /\ critical_skill # NoSkill
       THEN IF Len(closest_worker.missing_skills) = 1
            THEN [kind |-> "STRATEGIC", tag |-> "train",
                  worker_id |-> closest_worker.worker_id,
                  skill |-> critical_skill,
                  matching_skills_count |-> closest_worker.matching_skills_count,
                  total_required_skills |-> closest_worker.total_required_skills,
                  role |-> summary.role, shift_id |-> summary.shift_id]
            ELSE [kind |-> "STRATEGIC", tag |-> "prioritize",
                  worker_id |-> closest_worker.worker_id,
                  skill |-> critical_skill,
                  matching_skills_count |-> closest_worker.matching_skills_count,
                  total_required_skills |-> closest_worker.total_required_skills,
                  missing_skills |-> closest_worker.missing_skills]
       ELSE [kind |-> "STRATEGIC", tag |-> "hire", skill |-> critical_skill,
             role |-> summary.role, shift_id |-> summary.shift_id]

\* min(move_data, key=impact_score): the first move with the lowest score
best_move(move_data) ==
    move_data[CHOOSE i \in 1..Len(move_data) :
                 /\ \A j \in 1..Len(move_data) :
                       move_data[i].impact_score <= move_data[j].impact_score
                 /\ \A j \in 1..(i - 1) :
                       move_data[i].impact_score < move_data[j].impact_score]

tactical_tip(summary, move_data) ==
    IF move_data = <<>>
    THEN [kind |-> "TACTICAL", tag |-> "none", target_shift |-> summary.shift_id]
    ELSE [kind |-> "TACTICAL", tag |-> "move",
          worker_id |-> best_move(move_data).worker_id,
          source_shift_id |-> best_move(move_data).source_shift_id,
          target_shift |-> summary.shift_id,
          role |-> summary.role,
          reason |-> best_move(move_data).reason,
          impact_score |-> best_move(move_data).impact_score]

\* variant: the first penalty of the list
worst_penalty_first(penalty_data) == penalty_data[1]

\* max(penalty_data, key=penalty_score): the first penalty with the highest score
worst_penalty(penalty_data) ==
    penalty_data[CHOOSE i \in 1..Len(penalty_data) :
                    /\ \A j \in 1..Len(penalty_data) :
                          penalty_data[j].penalty_score <= penalty_data[i].penalty_score
                    /\ \A j \in 1..(i - 1) :
                          penalty_data[j].penalty_score < penalty_data[i].penalty_score]

immediate_fix(penalty_data) ==
    IF penalty_data = <<>>
    THEN [kind |-> "IMMEDIATE FIX", tag |-> "none"]
    ELSE [kind |-> "IMMEDIATE FIX", tag |-> "relax",
          soft_constraint_id |-> worst_penalty(penalty_data).soft_constraint_id,
          current_setting |-> worst_penalty(penalty_data).current_setting,
          penalty_score |-> worst_penalty(penalty_data).penalty_score]

MaxHistory == 2

\* the summary handed to generate_tips: the last analysis, one key possibly
\* left out
tips_summary ==
    IF tips_call.drop = "none" THEN last_analysis.summary
    ELSE [k \in DOMAIN last_analysis.summary \ {tips_call.drop} |->
             last_analysis.summary[k]]

\* one call of RecommendationEngine.generate_tips
generate_tips ==
    /\ pc = "diagnostics"
    /\ last_analysis.present
    /\ Len(recommendation_history) < MaxHistory
    /\ IF tips_raises(tips_summary)
       THEN /\ last_tips' = [called |-> TRUE, raised |-> TRUE, recommendations |-> <<>>]
            /\ recommendation_history' = recommendation_history
       ELSE LET recommendations ==
                    <<strategic_tip(tips_summary),
                      tactical_tip(tips_summary, tips_call.move_data),
                      immediate_fix(tips_call.penalty_data)>>
            IN /\ recommendation_history' =
                     Append(recommendation_history,
                            [summary |-> tips_summary,
                             recommendations |-> recommendations])
               /\ last_tips' = [called |-> TRUE, raised |-> FALSE,
                                recommendations |-> recommendations]
    /\ UNCHANGED <<data, time_limit_seconds, pc, x, aux_vars, overlap_cache,
                   constraints, objective, solver_params, solver_calls, status,
                   solution, success, solver_log, diagnosis, runner_vars,
                   last_analysis, conflict_data, tips_call, summary_call>>

DiagnosticsNext ==
    \/ generate_summary
    \/ generate_tips

----------------------------------------------------------------------------
(* Tips runs: a shift s1 short of two cooks, with and without candidates    *)
(* and missing skills, then every list of up to MaxPenalties penalty        *)
(* reports and MaxMoves candidate moves                                     *)

MaxPenalties == 2

MaxMoves == 2

SeqsUpTo(S, n) == UNION {[1..k -> S] : k \in 0..n}

TipsConflicts ==
    {ConstraintConflict("s1", "Cook", 2, ms) : ms \in {<<>>, <<"Grill", "Bar">>}}

TipsWorkers ==
    {<<>>,
     <<WorkerStatus("w7", TRUE, {"Grill"}, ""),
       WorkerStatus("w8", FALSE, {}, "Scheduled elsewhere")>>}

TipsConflictData ==
    {[conflict |-> c, worker_statuses |-> ws] : c \in TipsConflicts, ws \in TipsWorkers}
    \cup {[conflict |-> c] : c \in TipsConflicts}

TipsQueues ==
    {<<cd>> : cd \in TipsConflictData}
    \cup {<<[conflict |-> c], cd>> : c \in TipsConflicts, cd \in TipsConflictData}

\* scores 5.0 and 12.5
PenaltyChoices ==
    {PenaltyReport("max_consecutive_days", 50, "5 days"),
     PenaltyReport("preferred_shift_length", 50, "8h"),
     PenaltyReport("weekend_balance", 125, "2 per month")}

\* impact scores 1.50, 1.00 and 2.00; s1 is the diagnosed shift
MoveChoices ==
    {CandidateMove("w7", "s2", "s1", 150, "minimal disruption"),
     CandidateMove("w8", "s2", "s3", 100, ""),
     CandidateMove("w9", "s3", "s1", 200, "")}

TipsCalls ==
    {[penalty_data |-> pd, move_data |-> md, drop |-> k] :
        pd \in SeqsUpTo(PenaltyChoices, MaxPenalties),
        md \in SeqsUpTo(MoveChoices, MaxMoves),
        k \in {"none"} \cup Range(required_keys)}

InitTips ==
    \E q \in TipsQueues, call \in TipsCalls :
        /\ data = NoData
        /\ time_limit_seconds = DefaultTimeLimit
        /\ pc = "diagnostics"
        /\ input_data = NoInput
        /\ conflict_data = q
        /\ tips_call = call
        /\ FreshState

SpecTips == InitTips /\ [][DiagnosticsNext]_vars

----------------------------------------------------------------------------
(* Diagnosis runs: a conflict on shift s2 with every list of up to          *)
(* MaxSkills distinct missing skills and every list of up to MaxCandidates  *)
(* candidates, each available or not and holding any of the skills; the     *)
(* conflict is diagnosed first or after a conflict of another shift         *)

MaxSkills == 2

MaxCandidates == 2

SkillPool == {"Grill", "Bar"}

CandidateIds == <<"w7", "w8", "w9">>

\* lists of distinct skills
MissingSkillLists ==
    {ms \in SeqsUpTo(SkillPool, MaxSkills) :
        \A i, j \in 1..Len(ms) : ms[i] = ms[j] => i = j}

CandidateLists ==
    UNION {{[i \in 1..k |->
                WorkerStatus(CandidateIds[i], av[i], sk[i],
                             IF av[i] THEN "" ELSE "Scheduled elsewhere")] :
              av \in [1..k -> BOOLEAN], sk \in [1..k -> SUBSET SkillPool]} :
           k \in 0..MaxCandidates}

DiagnosisConflictData ==
    {[conflict |-> ConstraintConflict("s2", "Cook", 2, ms), worker_statuses |-> ws] :
        ms \in MissingSkillLists, ws \in CandidateLists}

\* the conflicts of shift s1 diagnosed before
PreviousConflictData ==
    {[conflict |-> ConstraintConflict("s1", "Host", 1, <<"Bar", "Grill">>),
      worker_statuses |-> <<WorkerStatus("w9", TRUE, {"Grill"}, "")>>],
     [conflict |-> ConstraintConflict("s1", "Host", 1, <<"Grill">>),
      worker_statuses |-> <<WorkerStatus("w9", FALSE, {}, "Time-off requested"),
                            WorkerStatus("w8", TRUE, {"Grill", "Bar"}, "")>>]}

DiagnosisQueues ==
    {<<cd>> : cd \in DiagnosisConflictData}
    \cup {<<prev, cd>> : prev \in PreviousConflictData, cd \in DiagnosisConflictData}

InitDiagnosis ==
    \E q \in DiagnosisQueues :
        /\ data = NoData
        /\ time_limit_seconds = DefaultTimeLimit
        /\ pc = "diagnostics"
        /\ input_data = NoInput
        /\ conflict_data = q
        /\ tips_call = NoCall
        /\ FreshState

SpecDiagnosis == InitDiagnosis /\ [][DiagnosticsNext]_vars

----------------------------------------------------------------------------
(* Balance runs: the runner scores one hours map after another.             *)

InitBalance ==
    /\ data = NoData
    /\ time_limit_seconds = DefaultTimeLimit
    /\ pc = "balance"
    /\ input_data = NoInput
    /\ conflict_data = <<>>
    /\ tips_call = NoCall
    /\ FreshState

SpecBalance == InitBalance /\ [][BalanceNext]_vars

----------------------------------------------------------------------------
(* Overlap runs: MaxShifts shifts whose ids are drawn in every order, so    *)
(* that the catalog order and the order of the ids differ, on two days and  *)
(* at times that overlap, touch or wrap past midnight; w1 is available on   *)
(* both days and w2 on Monday only, each shift needs one server             *)

OverlapIds == {"s1", "s2", "s3"}

OverlapIdLists ==
    {ids \in [1..MaxShifts -> OverlapIds] :
        \A i, j \in 1..MaxShifts : i # j => ids[i] # ids[j]}

\* Monday 08:00-12:00, 10:00-14:00 and 22:00-06:00, Tuesday 10:00-14:00
OverlapChoices ==
    {<<"Monday", 480, 720>>, <<"Monday", 600, 840>>, <<"Monday", 1320, 360>>,
     <<"Tuesday", 600, 840>>}

OverlapShiftLists ==
    {[i \in 1..MaxShifts |-> Shift(ids[i], c[i][1], c[i][2], c[i][3])] :
        ids \in OverlapIdLists, c \in [1..MaxShifts -> OverlapChoices]}

OverlapData ==
    {[engine |-> e,
      workers |-> <<"w1", "w2">>,
      worker_skills |-> [w \in {"w1", "w2"} |-> {"Server"}],
      worker_availability |->
         [w \in {"w1", "w2"} |->
             IF w = "w1" THEN <<WideSlot("Monday"), WideSlot("Tuesday")>>
             ELSE <<WideSlot("Monday")>>],
      labor_cost |-> [w \in {"w1", "w2"} |-> IF w = "w1" THEN 1000 ELSE 1200],
      max_hours_per_week |-> [w \in {"w1", "w2"} |-> DefaultMaxHours],
      shifts |-> sl,
      shift_requirements |->
         [sid \in Range([i \in 1..Len(sl) |-> sl[i].shift_id]) |->
             <<Requirement("Server", 1, NoSkill)>>],
      budget_constraint |-> NoBudget,
      fairness_constraints |-> DefaultFairness] :
        e \in Engines, sl \in OverlapShiftLists}

InitOverlap == \E d \in OverlapData : InitWith(d, DefaultTimeLimit)

SpecOverlap == InitOverlap /\ [][Next]_vars

----------------------------------------------------------------------------
(* Vocabulary of the properties *)

\* the (worker, shift) pairs of the produced roster
Roster == {<<solution.assignments[k].worker_id, solution.assignments[k].shift_id>> :
              k \in 1..Len(solution.assignments)}

\* a roster was produced by a successful solve
Produced == solution.present /\ status \in {"OPTIMAL", "FEASIBLE"}

\* some single availability window of the worker is on the shift's day and
\* contains the shift, overnight ends extended by 24h
WindowCovers(w, shift) ==
    /\ w \in DOMAIN data.worker_availability
    /\ \E k \in 1..Len(data.worker_availability[w]) :
          LET slot == data.worker_availability[w][k]
              slot_end == IF slot.end_time < slot.start_time
                          THEN slot.end_time + 1440 ELSE slot.end_time
              shift_end == IF shift.end_time < shift.start_time
                           THEN shift.end_time + 1440 ELSE shift.end_time
          IN /\ slot.day = shift.day
             /\ slot.start_time <= shift.start_time
             /\ slot_end >= shift_end

HoldsRequirement(w, req) ==
    /\ req.role \in data.worker_skills[w]
    /\ req.required_skill # NoSkill => req.required_skill \in data.worker_skills[w]

\* workers eligible for a requirement of a shift
EligibleFor(shift, req) ==
    {w \in Range(workers) : WindowCovers(w, shift) /\ HoldsRequirement(w, req)}

AssignedTo(shift) == {w \in Range(workers) : <<w, shift.shift_id>> \in Roster}

ReqIndex(shift) == 1..Len(data.shift_requirements[shift.shift_id])

ReqOf(shift, j) == data.shift_requirements[shift.shift_id][j]

----------------------------------------------------------------------------
(* C1: in every roster of a successful solve, each requirement that has at  *)
(* least one eligible worker is staffed by exactly its required count of    *)
(* eligible workers.                                                        *)
C1_CoverageExact ==
    Produced =>
        \A i \in 1..Len(shifts) : \A j \in ReqIndex(shifts[i]) :
            LET E == EligibleFor(shifts[i], ReqOf(shifts[i], j))
            IN E # {} =>
                 Cardinality(E \cap AssignedTo(shifts[i])) = ReqOf(shifts[i], j).count

\* a roster in which one of two eligible workers fills a requirement of one
C1_Witness ==
    /\ Produced
    /\ \E i \in 1..Len(shifts) : \E j \in ReqIndex(shifts[i]) :
          LET E == EligibleFor(shifts[i], ReqOf(shifts[i], j))
          IN /\ Cardinality(E) = 2
             /\ ReqOf(shifts[i], j).count = 1
             /\ Cardinality(E \cap AssignedTo(shifts[i])) = 1

(* C2: requirements of one shift do not share headcount: the distinct      *)
(* workers assigned to a shift are at least the sum of the required counts  *)
(* of its requirements that have an eligible worker.                        *)
C2_NoSharedHeadcount ==
    Produced =>
        \A i \in 1..Len(shifts) :
            Cardinality(AssignedTo(shifts[i])) >=
                SumF([j \in ReqIndex(shifts[i]) |-> ReqOf(shifts[i], j).count],
                     {j \in ReqIndex(shifts[i]) :
                         EligibleFor(shifts[i], ReqOf(shifts[i], j)) # {}})

(* C3: no overstaffing: every assignment of a produced roster is of a      *)
(* worker who holds the role and required skill of some requirement of the  *)
(* shift.                                                                   *)
C3_NoOverstaffing ==
    Produced =>
        \A i \in 1..Len(shifts) : \A w \in AssignedTo(shifts[i]) :
            \E j \in ReqIndex(shifts[i]) : HoldsRequirement(w, ReqOf(shifts[i], j))

(* C4: a requirement with a positive count and no eligible worker is       *)
(* marked by the builder, so the solve does not succeed while it is        *)
(* unstaffed.                                                               *)
C4_UnsatisfiableNotSkipped ==
    \A i \in 1..Len(shifts) : \A j \in ReqIndex(shifts[i]) :
        (/\ ReqOf(shifts[i], j).count > 0
         /\ EligibleFor(shifts[i], ReqOf(shifts[i], j)) = {})
        => ~success

----------------------------------------------------------------------------
(* Properties of the time rules *)

DayIdx(shift) == CHOOSE d \in 0..6 : days_order[d + 1] = shift.day

EndOf(shift) ==
    IF shift.end_time < shift.start_time THEN shift.end_time + 1440 ELSE shift.end_time

\* same day, start1 < end2 and start2 < end1, cross-midnight ends extended by 24h
Overlap(a, b) ==
    /\ a.day = b.day
    /\ a.start_time < EndOf(b)
    /\ b.start_time < EndOf(a)

BothAssigned(w, i, j) ==
    /\ <<w, shifts[i].shift_id>> \in Roster
    /\ <<w, shifts[j].shift_id>> \in Roster

(* C6: in a produced roster no worker holds two overlapping shifts;        *)
(* back-to-back shifts do not overlap.                                      *)
C6_NoOverlap ==
    Produced =>
        \A w \in Range(workers) : \A i, j \in 1..Len(shifts) :
            (i # j /\ BothAssigned(w, i, j)) => ~Overlap(shifts[i], shifts[j])

\* one worker holds two back-to-back shifts of the same day
C6_Witness ==
    /\ Produced
    /\ \E w \in Range(workers) : \E i, j \in 1..Len(shifts) :
          /\ i # j
          /\ BothAssigned(w, i, j)
          /\ shifts[i].day = shifts[j].day
          /\ EndOf(shifts[i]) = shifts[j].start_time

\* minutes from Monday 00:00
AbsStart(shift) == DayIdx(shift) * 1440 + shift.start_time

AbsEnd(shift) == DayIdx(shift) * 1440 + EndOf(shift)

\* rest between two shifts: from the end of the one that starts first to the
\* start of the other
RestGap(a, b) ==
    IF AbsStart(a) <= AbsStart(b) THEN AbsStart(b) - AbsEnd(a)
    ELSE AbsStart(a) - AbsEnd(b)

AdjacentDays(a, b) ==
    /\ DayIdx(a) - DayIdx(b) <= 1
    /\ DayIdx(b) - DayIdx(a) <= 1

(* C7: in a produced roster of the restaurant engine no worker holds two   *)
(* shifts on the same or adjacent days with a rest gap shorter than        *)
(* min_rest_hours.                                                          *)
C7_MinimumRest ==
    (Produced /\ data.engine = "restaurant") =>
        \A w \in Range(workers) : \A i, j \in 1..Len(shifts) :
            (/\ i # j
             /\ BothAssigned(w, i, j)
             /\ AdjacentDays(shifts[i], shifts[j])
             /\ ~Overlap(shifts[i], shifts[j]))
            => RestGap(shifts[i], shifts[j]) >= data.fairness_constraints.min_rest_hours

\* shifts of worker w that fall on the days start..start+len-1 (0-based)
ShiftsInWindow(w, start, len) ==
    {i \in 1..Len(shifts) :
        /\ <<w, shifts[i].shift_id>> \in Roster
        /\ DayIdx(shifts[i]) >= start
        /\ DayIdx(shifts[i]) < start + len}

(* C8: under max_consecutive_days = m < 7 every window of m+1 consecutive  *)
(* days holds at most m assigned shifts of a worker, hence a day without a *)
(* shift; for m >= 7 no consecutive-days constraint is added.               *)
C8_ConsecutiveDays ==
    LET m == data.fairness_constraints.max_consecutive_days
    IN data.engine = "restaurant" =>
        /\ (Produced /\ m < 7) =>
              \A w \in Range(workers) : \A start \in 0..(6 - m) :
                  /\ Cardinality(ShiftsInWindow(w, start, m + 1)) <= m
                  /\ \E d \in start..(start + m) : ShiftsInWindow(w, d, 1) = {}
        /\ m >= 7 =>
              \A k \in 1..Len(constraints) : constraints[k].kind # "consecutive"

\* max 1 consecutive day: shifts on two adjacent days go to different workers
C8_Witness ==
    /\ Produced
    /\ data.engine = "restaurant"
    /\ data.fairness_constraints.max_consecutive_days = 1
    /\ \E i, j \in 1..Len(shifts) :
          /\ DayIdx(shifts[j]) = DayIdx(shifts[i]) + 1
          /\ \E w1, w2 \in Range(workers) :
                /\ w1 # w2
                /\ <<w1, shifts[i].shift_id>> \in Roster
                /\ <<w2, shifts[j].shift_id>> \in Roster

----------------------------------------------------------------------------
(* Properties of the cost and hours rules *)

AssignmentIndex == 1..Len(solution.assignments)

\* sum over the listed assignments of hourly rate x duration, in cent-minutes
RosterCost(K) == SumF([k \in AssignmentIndex |-> solution.assignments[k].cost], K)

OnDay(day) ==
    {k \in AssignmentIndex : get_shift(solution.assignments[k].shift_id).day = day}

(* C9: with a budget policy the total cost of a produced roster, the sum   *)
(* of hourly rate x shift duration over its assignments, is at most        *)
(* max_total_cost, and with a daily cap the cost of each day is at most    *)
(* max_daily_cost.                                                          *)
C9_WithinBudget ==
    (Produced /\ data.engine = "restaurant" /\ data.budget_constraint.set) =>
        /\ RosterCost(AssignmentIndex) <= data.budget_constraint.max_total_cost * 60
        /\ data.budget_constraint.has_daily =>
              \A d \in 1..7 :
                  RosterCost(OnDay(days_order[d]))
                      <= data.budget_constraint.max_daily_cost * 60

\* hours of a shift and of a weekly limit as integers scaled by 100
Scaled100(minutes) == (minutes * 100) \div 60

ScaledHoursOf(w) ==
    SumF([k \in AssignmentIndex |->
             Scaled100(EndOf(get_shift(solution.assignments[k].shift_id))
                       - get_shift(solution.assignments[k].shift_id).start_time)],
         {k \in AssignmentIndex : solution.assignments[k].worker_id = w})

(* C10: in a produced roster the durations of the shifts of each worker,   *)
(* as integers scaled by 100, sum to at most the worker's max weekly hours *)
(* scaled by 100.                                                           *)
C10_WeeklyHours ==
    Produced =>
        \A w \in Range(workers) :
            ScaledHoursOf(w) <= Scaled100(data.max_hours_per_week[w])

\* a worker limited to 7.5h holds one of two 7.5h shifts, the other goes to
\* the colleague
C10_Witness ==
    /\ Produced
    /\ Len(shifts) = 2
    /\ \E w \in Range(workers) :
          /\ ScaledHoursOf(w) = Scaled100(data.max_hours_per_week[w])
          /\ ScaledHoursOf(w) > 0
          /\ \E i \in 1..Len(shifts) : <<w, shifts[i].shift_id>> \notin Roster

----------------------------------------------------------------------------
(* C11: every shift of the catalog has a duration strictly greater than 0,  *)
(* overnight shifts (end earlier than start) included.                      *)
C11_DurationPositive ==
    \A i \in 1..Len(shifts) : duration_minutes(shifts[i]) > 0

----------------------------------------------------------------------------
(* Properties of the solver adapter *)

RaisedIn(k) == solver_log[k].status = "ERROR"

(* C12: one solve invokes the solver once or twice; a second invocation     *)
(* happens only after the first one raised an error, never after it         *)
(* returned a status such as INFEASIBLE; when the second invocation raises  *)
(* too the solve ends with failure and no roster.                           *)
C12_SingleRetry ==
    /\ Len(solver_log) = solver_calls
    /\ pc # "done" => solver_calls = 0
    /\ pc = "done" =>
          /\ solver_calls \in {1, 2}
          /\ solver_calls = 2 => RaisedIn(1)
          /\ solver_log[1].status \in {"OPTIMAL", "FEASIBLE", "INFEASIBLE", "UNKNOWN"}
                => solver_calls = 1
          /\ (solver_calls = 2 /\ RaisedIn(2)) => (~success /\ ~solution.present)

\* both invocations raised and the solve ended without a roster
C12_Witness ==
    /\ pc = "done"
    /\ solver_calls = 2
    /\ RaisedIn(1)
    /\ RaisedIn(2)
    /\ ~success

(* C13: the time limit in force at the first solver invocation lies in      *)
(* 1..600: a request below 1 becomes 1, a request above 600 becomes 600, a  *)
(* request inside the range is passed unchanged, in both engines.           *)
C13_TimeLimitClamped ==
    pc = "done" =>
        LET t == solver_log[1].params.max_time_in_seconds
        IN /\ t >= 1
           /\ t <= 600
           /\ time_limit_seconds < 1 => t = 1
           /\ time_limit_seconds > 600 => t = 600
           /\ (time_limit_seconds >= 1 /\ time_limit_seconds <= 600)
                 => t = time_limit_seconds

----------------------------------------------------------------------------
(* Properties of the runners *)

SolvedStatus == status \in {"OPTIMAL", "FEASIBLE"}

(* C14: a solve reports success and stores a roster exactly when the final  *)
(* status is OPTIMAL or FEASIBLE, and the result the runner reports then    *)
(* has success = true and a solution; for every other status no roster is   *)
(* stored and the result has success = false.                               *)
C14_SuccessIffSolved ==
    /\ pc \in {"done", "reported"} =>
          /\ success <=> SolvedStatus
          /\ solution.present <=> SolvedStatus
    /\ pc = "reported" =>
          /\ SolvedStatus => (result.success /\ result.solution.present)
          /\ ~SolvedStatus => (~result.success /\ ~result.solution.present)

\* the document of a run: a part is absent, empty or not of its type
DocOf == input_data.doc

NoWorkers == Get(DocOf, "workers", <<>>) = <<>>

NoShifts == Get(DocOf, "shifts", <<>>) = <<>>

WorkerDataMissing ==
    \E i \in 1..Len(Get(DocOf, "workers", <<>>)) :
        "id" \notin DOMAIN DocOf.workers[i]

ShiftDataMissing ==
    \E i \in 1..Len(Get(DocOf, "shifts", <<>>)) :
        \E k \in {"id", "day", "start_time", "end_time"} : k \notin DOMAIN DocOf.shifts[i]

RequirementDataMissing ==
    \E i \in 1..Len(Get(DocOf, "shifts", <<>>)) :
        \/ "requirements" \notin DOMAIN DocOf.shifts[i]
        \/ \E j \in 1..Len(Get(DocOf.shifts[i], "requirements", <<>>)) :
              LET req == DocOf.shifts[i].requirements[j]
              IN \/ "role" \notin DOMAIN req
                 \/ "count" \notin DOMAIN req
                 \/ ~req.count.int

InputInvalid ==
    \/ NoWorkers
    \/ NoShifts
    \/ WorkerDataMissing
    \/ ShiftDataMissing
    \/ RequirementDataMissing

(* C15: when the input has no workers, no shifts, or worker, shift or       *)
(* requirement data that is missing or invalid, loading fails with an       *)
(* error entry, no model is built, the solver is never invoked, and the     *)
(* result keeps success = false and no solution.                            *)
C15_InvalidInputRejected ==
    (input_data.runner # "none" /\ InputInvalid) =>
        /\ pc \in {"input", "rejected"}
        /\ pc = "rejected" => Len(result.errors) >= 1
        /\ x = {}
        /\ constraints = <<>>
        /\ solver_calls = 0
        /\ ~result.success
        /\ ~result.solution.present

\* some requirement has fewer eligible workers than its required count
Understaffed ==
    \E i \in 1..Len(shifts) : \E j \in ReqIndex(shifts[i]) :
        Cardinality(EligibleFor(shifts[i], ReqOf(shifts[i], j))) < ReqOf(shifts[i], j).count

(* C16: when the solve fails for lack of staff, some requirement having     *)
(* fewer eligible workers than its count, the failure result lists at       *)
(* least one coverage gap.                                                  *)
C16_GapReported ==
    (pc = "reported" /\ status = "INFEASIBLE" /\ Understaffed) =>
        Len(result.coverage_gaps) >= 1

\* the requirement of the catalog a gap entry names
GapMatches(gap, shift, req) ==
    /\ gap.shift_id = shift.shift_id
    /\ gap.required_role = req.role
    /\ gap.required_skill = req.required_skill

(* C17: on the failure path every coverage gap carries as eligible_workers  *)
(* the number of workers eligible for its requirement by availability,      *)
(* role and required skill, and as missing_staff the required count minus   *)
(* that number.                                                             *)
C17_GapCounts ==
    (pc = "reported" /\ ~solution.present) =>
        \A g \in 1..Len(result.coverage_gaps) :
            \A i \in 1..Len(shifts) : \A j \in ReqIndex(shifts[i]) :
                GapMatches(result.coverage_gaps[g], shifts[i], ReqOf(shifts[i], j)) =>
                    LET n == Cardinality(EligibleFor(shifts[i], ReqOf(shifts[i], j)))
                    IN /\ result.coverage_gaps[g].eligible_workers = n
                       /\ result.coverage_gaps[g].missing_staff
                             = ReqOf(shifts[i], j).count - n

----------------------------------------------------------------------------
(* Properties of the infeasibility diagnosis *)

\* the assignments that satisfy every coverage constraint of the model
CoverageAssignments ==
    {A \in SUBSET x :
        \A i \in 1..Len(constraints) :
            constraints[i].kind = "coverage" => LinHolds(constraints[i], A)}

\* hourly rate x duration summed over the pairs of A, in cent-minutes
ExactCost(A) ==
    SumF([p \in x |-> data.labor_cost[p[1]] * duration_minutes(get_shift(p[2]))], A)

\* the cap is below the cost of the cheapest assignment that covers every
\* requirement
CapBelowCheapest ==
    /\ budget_set
    /\ CoverageAssignments # {}
    /\ \A A \in CoverageAssignments :
          data.budget_constraint.max_total_cost * MinutesPerHour < ExactCost(A)

(* C18: whenever the budget cap is below the cost of the cheapest           *)
(* assignment that satisfies all coverage requirements, a solve that        *)
(* reaches a verdict is INFEASIBLE and the diagnosis states that the        *)
(* minimum possible cost exceeds the cap.                                   *)
C18_BudgetTooTight ==
    (/\ pc = "done"
     /\ data.engine = "restaurant"
     /\ CapBelowCheapest
     /\ status \in {"OPTIMAL", "FEASIBLE", "INFEASIBLE"}) =>
        /\ status = "INFEASIBLE"
        /\ diagnosis.budget_too_tight

----------------------------------------------------------------------------
(* Properties of the recommendations *)

TipKinds(recs) == [i \in 1..Len(recs) |-> recs[i].kind]

\* the tip names a penalty of the list that no penalty of the list outscores
NamesHighestPenalty(tip, penalty_data) ==
    \E i \in 1..Len(penalty_data) :
        /\ penalty_data[i].soft_constraint_id = tip.soft_constraint_id
        /\ penalty_data[i].penalty_score = tip.penalty_score
        /\ \A j \in 1..Len(penalty_data) :
              penalty_data[j].penalty_score <= penalty_data[i].penalty_score

(* C19: for every summary that has the required keys and every penalty     *)
(* and move list, generate_tips returns exactly three recommendations in    *)
(* the order strategic, tactical, immediate; an empty move list gives the   *)
(* tactical fallback, an empty penalty list the immediate fallback, and a   *)
(* non-empty penalty list the penalty with the highest score.               *)
C19_ThreeTips ==
    /\ last_tips.raised => tips_call.drop # "none"
    /\ (last_tips.called /\ ~last_tips.raised) =>
          /\ recommendation_history # <<>>
          /\ last_tips.recommendations =
                recommendation_history[Len(recommendation_history)].recommendations
    /\ \A h \in 1..Len(recommendation_history) :
          LET recs == recommendation_history[h].recommendations
          IN /\ Len(recs) = 3
             /\ TipKinds(recs) = <<"STRATEGIC", "TACTICAL", "IMMEDIATE FIX">>
             /\ tips_call.move_data = <<>> <=> recs[2].tag = "none"
             /\ tips_call.penalty_data = <<>> <=> recs[3].tag = "none"
             /\ tips_call.penalty_data # <<>> =>
                   /\ recs[3].tag = "relax"
                   /\ NamesHighestPenalty(recs[3], tips_call.penalty_data)

\* tips were returned for a penalty list whose highest score is not the
\* first one, and for no moves
C19_Witness ==
    /\ last_tips.called
    /\ ~last_tips.raised
    /\ tips_call.move_data = <<>>
    /\ Len(tips_call.penalty_data) >= 2
    /\ tips_call.penalty_data[1].penalty_score < tips_call.penalty_data[2].penalty_score

\* the tip proposes a move of the list into the shift, and no move of the
\* list into that shift has a lower impact score
ProposesBestMoveInto(tip, move_data, shift_id) ==
    \E i \in 1..Len(move_data) :
        /\ move_data[i].worker_id = tip.worker_id
        /\ move_data[i].source_shift_id = tip.source_shift_id
        /\ move_data[i].impact_score = tip.impact_score
        /\ move_data[i].target_shift_id = shift_id
        /\ \A j \in 1..Len(move_data) :
              move_data[j].target_shift_id = shift_id =>
                  move_data[i].impact_score <= move_data[j].impact_score

(* C20: when the move list is not empty the tactical recommendation         *)
(* proposes the move with the lowest impact score among the moves into the  *)
(* diagnosed shift: its target is that shift and no other move into the     *)
(* shift has a lower score.                                                 *)
C20_BestMoveIntoShift ==
    \A h \in 1..Len(recommendation_history) :
        tips_call.move_data # <<>> =>
            /\ recommendation_history[h].recommendations[2].tag = "move"
            /\ ProposesBestMoveInto(recommendation_history[h].recommendations[2],
                                    tips_call.move_data,
                                    recommendation_history[h].summary.shift_id)

----------------------------------------------------------------------------
(* Properties of the diagnosis *)

StrategicTip(h) == recommendation_history[h].recommendations[1]

(* C21: the strategic recommendation is the hiring suggestion exactly when  *)
(* the candidate pool is empty; with at least one candidate it recommends   *)
(* training the closest-match worker in the critical missing skill.         *)
C21_HireIffNoCandidates ==
    \A h \in 1..Len(recommendation_history) :
        LET summary == recommendation_history[h].summary
        IN /\ StrategicTip(h).tag = "hire" <=> summary.total_workers_in_pool = 0
           /\ summary.total_workers_in_pool > 0 =>
                 /\ StrategicTip(h).tag \in {"train", "prioritize"}
                 /\ StrategicTip(h).worker_id = summary.closest_match_worker.worker_id
                 /\ StrategicTip(h).skill = summary.critical_missing_skill

\* the latest generate_summary call returned a summary
Diagnosed == summary_call.calls >= 1 /\ ~summary_call.raised

DiagnosedSkills == summary_call.conflict_data.conflict.missing_skills

DiagnosedCandidates == summary_call.conflict_data.worker_statuses

\* number of candidates that lack the i-th declared skill
Lacking(i) ==
    Cardinality({k \in 1..Len(DiagnosedCandidates) :
                    DiagnosedSkills[i] \notin DiagnosedCandidates[k].available_skills})

(* C22: the critical missing skill of a summary is the declared missing     *)
(* skill that most candidates lack, the first declared one among equals,    *)
(* whatever was diagnosed before.                                           *)
C22_CriticalSkill ==
    Diagnosed =>
        /\ last_analysis.present
        /\ last_analysis.summary.shift_id = summary_call.conflict_data.conflict.shift_id
        /\ IF DiagnosedSkills = <<>>
           THEN last_analysis.summary.critical_missing_skill = NoSkill
           ELSE \E i \in 1..Len(DiagnosedSkills) :
                   /\ last_analysis.summary.critical_missing_skill = DiagnosedSkills[i]
                   /\ \A j \in 1..Len(DiagnosedSkills) : Lacking(j) <= Lacking(i)
                   /\ \A j \in 1..(i - 1) : Lacking(j) < Lacking(i)

\* a second diagnosis in a row in which two declared skills are lacked by
\* the same, largest number of candidates
C22_Witness ==
    /\ Diagnosed
    /\ summary_call.calls >= 2
    /\ Len(DiagnosedSkills) = 2
    /\ Lacking(1) = Lacking(2)
    /\ Lacking(1) >= 1

\* number of declared skills the k-th candidate holds
Matching(k) ==
    Cardinality({i \in 1..Len(DiagnosedSkills) :
                    DiagnosedSkills[i] \in DiagnosedCandidates[k].available_skills})

ClosestMatch == last_analysis.summary.closest_match_worker

(* C23: the closest-match worker is the candidate that holds the most       *)
(* required skills, the first of the list among equals, and its             *)
(* matching_skills_count plus the length of its missing_skills is the       *)
(* number of required skills.                                               *)
C23_ClosestMatch ==
    (Diagnosed /\ ClosestMatch.present) =>
        /\ \E k \in 1..Len(DiagnosedCandidates) :
              /\ ClosestMatch.worker_id = DiagnosedCandidates[k].worker_id
              /\ ClosestMatch.matching_skills_count = Matching(k)
              /\ \A j \in 1..Len(DiagnosedCandidates) : Matching(j) <= Matching(k)
              /\ \A j \in 1..(k - 1) : Matching(j) < Matching(k)
        /\ ClosestMatch.matching_skills_count + Len(ClosestMatch.missing_skills)
              = Len(DiagnosedSkills)

\* two candidates hold the same, largest number of the required skills and
\* lack one
C23_Witness ==
    /\ Diagnosed
    /\ ClosestMatch.present
    /\ Len(DiagnosedCandidates) = 2
    /\ Matching(1) = Matching(2)
    /\ Matching(1) = 1
    /\ Len(ClosestMatch.missing_skills) = 1

(* C30: a strategic recommendation that tells to train a worker in a skill  *)
(* names the closest-match candidate and a skill that candidate lacks: the  *)
(* skill is one of the closest-match worker's missing_skills.               *)
C30_TrainsMissingSkill ==
    \A h \in 1..Len(recommendation_history) :
        StrategicTip(h).tag \in {"train", "prioritize"} =>
            LET closest == recommendation_history[h].summary.closest_match_worker
            IN /\ closest.present
               /\ StrategicTip(h).worker_id = closest.worker_id
               /\ StrategicTip(h).skill \in Range(closest.missing_skills)

----------------------------------------------------------------------------
(* Properties of the extracted roster *)

(* C24: the total cost of a produced roster is the sum over its assignments *)
(* of hourly rate x shift duration, the sum of the per-assignment costs the *)
(* roster lists.                                                            *)
C24_TotalCostRecomputed ==
    Produced =>
        solution.total_cost * MinutesPerHour = RosterCost(AssignmentIndex)

ActiveCount(entry) == Max(1, Cardinality(hours_list(entry.worker_hours)))

\* the standard deviation of a is smaller than that of b
LessSpread(a, b) ==
    scaled_variance(a.worker_hours) * ActiveCount(b) * ActiveCount(b)
        < scaled_variance(b.worker_hours) * ActiveCount(a) * ActiveCount(a)

\* C26: the balance score is 100 when no worker or one worker has hours, it
\* always lies between 0 and 100, and of two hours maps the one whose active
\* workers' hours have the larger standard deviation has the strictly smaller
\* score.
C26_BalanceScore ==
    \A i \in 1..Len(balance_log) :
        LET a == balance_log[i]
        IN /\ Cardinality(hours_list(a.worker_hours)) <= 1 => a.score = PerfectScore
           /\ a.score \in 0..PerfectScore
           /\ \A j \in 1..Len(balance_log) :
                 LessSpread(a, balance_log[j]) => a.score > balance_log[j].score

\* C27: when the first solver invocation raised and the solver was invoked
\* again, for every requested time limit in 1..600 the second invocation runs
\* with fewer search workers than the first (1 instead of 4) and with a time
\* budget that is not shorter than the first one's and is at most the cap.
C27_RetryDegraded ==
    (Len(solver_log) = 2 /\ time_limit_seconds \in MinTimeLimit..MaxTimeLimit) =>
        LET attempt == solver_log[1].params
            retry == solver_log[2].params
        IN /\ attempt.num_search_workers = ParallelWorkers
           /\ retry.num_search_workers = RetryWorkers
           /\ retry.num_search_workers < attempt.num_search_workers
           /\ retry.max_time_in_seconds >= attempt.max_time_in_seconds
           /\ retry.max_time_in_seconds <= RetryTimeCap

\* the hard constraints have been added
HardConstraintsBuilt == pc \notin {"new", "variables"}

\* how many times the overlap constraint of worker w and shifts a, b was added
OverlapCount(w, a, b) ==
    Cardinality({k \in 1..Len(constraints) : constraints[k] = Mutex("overlap", w, a, b)})

\* the pairs of a worker's eligible shifts, in the order of the worker's variables
EligiblePairs(w) == Range(PairSeq(assigned_shifts(w)))

\* C28: once the hard constraints are built, for every worker and every
\* unordered pair of the worker's eligible shifts the mutual-exclusion
\* constraint x[w,s1] + x[w,s2] <= 1 was added exactly once if _shifts_overlap
\* holds of the two shifts and not at all otherwise, in both engines and for
\* every order of the ids in the catalog; no other overlap constraint exists.
C28_OverlapByCache ==
    HardConstraintsBuilt =>
        /\ \A w \in Range(workers) : \A p \in EligiblePairs(w) :
              OverlapCount(w, p[1], p[2]) =
                  IF shifts_overlap(get_shift(p[1]), get_shift(p[2])) THEN 1 ELSE 0
        /\ \A k \in 1..Len(constraints) :
              constraints[k].kind = "overlap" =>
                  \E w \in Range(workers) : \E p \in EligiblePairs(w) :
                      constraints[k] = Mutex("overlap", w, p[1], p[2])

\* a restaurant roster whose catalog lists an overlapping pair with the larger
\* id first, and a worker eligible for both got the constraint
C28_Witness ==
    /\ HardConstraintsBuilt
    /\ data.engine = "restaurant"
    /\ \E w \in Range(workers) : \E p \in EligiblePairs(w) :
          /\ IdRank(p[1]) > IdRank(p[2])
          /\ shifts_overlap(get_shift(p[1]), get_shift(p[2]))
          /\ OverlapCount(w, p[1], p[2]) = 1

\* whether the rest constraint of worker w and shifts a, b was added
RestConstrained(w, a, b) ==
    \E k \in 1..Len(constraints) : constraints[k] = Mutex("rest", w, a, b)

\* C29: in the restaurant engine the rest-period test gives the same answer
\* for a pair of a worker's shifts in either order, for the policy's minimum
\* rest, so the rest constraint of the pair was added exactly when the test
\* of the pair in the opposite order holds.
C29_RestOrderIndependent ==
    (HardConstraintsBuilt /\ data.engine = "restaurant") =>
        \A w \in Range(workers) : \A p \in EligiblePairs(w) :
            LET min_rest == data.fairness_constraints.min_rest_hours
                forward == insufficient_rest(get_shift(p[1]), get_shift(p[2]), min_rest)
                backward == insufficient_rest(get_shift(p[2]), get_shift(p[1]), min_rest)
            IN /\ forward = backward
               /\ RestConstrained(w, p[1], p[2]) = backward

====
